---- MODULE Spec2Model ----
(***************************************************************************)
(* A model of the execution and session subsystem of more-compute:         *)
(*   - WebSocketManager (server.py): the execute_cell, interrupt_kernel    *)
(*     and reset_kernel handlers, each run as its own asyncio task;        *)
(*   - NextZmqExecutor (next_zmq_executor.py): the Kernel Client, with its *)
(*     REQ command socket and SUB event socket;                            *)
(*   - worker_main (execution/worker.py): the worker's command loop;       *)
(*   - AsyncSpecialCommandHandler (utils/special_commands.py).             *)
(*                                                                         *)
(* One step of a handler is the code between two awaits: asyncio runs it   *)
(* without interleaving any other task of the server.  The worker is a     *)
(* separate process and interleaves freely with the server.                *)
(*                                                                         *)
(* Cell indices are 1-based here (0-based in the code); 0 stands for an    *)
(* absent cell_index (None).  A nullable execution count is 0 when None.   *)
(***************************************************************************)
EXTENDS Integers, Sequences, FiniteSets, TLC

\* ------------------------------------------------------------------ bounds
\* execute_cell messages a client sends in one run
MaxExec == 2
\* interrupt_kernel messages a client sends in one run
MaxInterrupt == 1
\* reset_kernel messages a client sends in one run
MaxReset == 1
\* websocket disconnects in one run
MaxDisconnect == 1
\* POST /api/gpu/pods/{pod_id}/connect and POST /api/gpu/pods/disconnect
\* requests in one run
MaxConnect == 1
MaxPodDisconnect == 1
\* the largest execution_count a command sent straight to the worker carries
MaxCount == 2
\* add_cell, delete_cell, move_cell and reset_kernel messages in one run of
\* the broadcasts, and the websocket clients that connect
MaxEdit == 2
MaxClient == 2
\* the pod ids monitored and the monitoring tasks created in one run
MaxPod == 2
MaxTask == 3
\* NextProcessExecutor: execute_cell, interrupt_kernel and reset_kernel calls
\* in one run, and worker processes the system kills in one run
MaxRun == 2
MaxConnTask == 2
MaxTunnelDeath == 1
MaxProcExec == 3
MaxProcInterrupt == 1
MaxProcReset == 1
MaxDeath == 1

\* ----------------------------------------------------------- cell sources
\* A source is a sequence of lines; a line is <<kind, argument>>:
\*   <<"assign", v>>   v = <constant>
\*   <<"expr", v>>     the bare name v
\*   <<"raise", E>>    a statement raising E (1/0, sys.exit())
\*   <<"loop", "">>    while True: pass
\*   <<"shell", c>>    a line whose first non-blank character is `!`
SrcBindY == << <<"assign", "y">> >>
SrcReadY == << <<"expr", "y">> >>
SrcDivZero == << <<"raise", "ZeroDivisionError">> >>
SrcSysExit == << <<"raise", "SystemExit">> >>
SrcLoop == << <<"loop", "">> >>
SrcShell == << <<"shell", "echo hi">> >>
SrcMixed == << <<"assign", "z">>, <<"shell", "echo hi">> >>
\* The text of a markdown cell: compile() raises SyntaxError on it.
SrcMarkdown == << <<"raise", "SyntaxError">> >>

\* The notebook the session is started on: one cell of every kind.
NotebookSources ==
  <<SrcBindY, SrcReadY, SrcDivZero, SrcSysExit, SrcLoop, SrcShell, SrcMixed,
    SrcMarkdown>>

\* The cell_type of each cell of the notebook.
NotebookTypes ==
  <<"code", "code", "code", "code", "code", "code", "code", "markdown">>

NumCells == Len(NotebookSources)

\* Exceptions deriving from Exception; SystemExit derives from BaseException only.
ExceptionClasses ==
  {"NameError", "ZeroDivisionError", "SyntaxError", "ZMQError"}

VARIABLES
  cells,              \* Notebook.cells: [source, outputs, execution_count]
  tasks,              \* the execute_cell handler tasks, by order of arrival
  nExec,              \* execute_cell messages received so far
  nInterrupt,         \* interrupt_kernel messages received so far
  nReset,             \* reset_kernel messages received so far
  ws,                 \* the client's websocket: the messages of each execute, in order
  wsCounts,           \* the client's websocket: the executor's counts and the restarts
  blocked,            \* the handler the event loop is blocked in (req.recv_json)
  execution_count,    \* NextZmqExecutor.execution_count
  reqState,           \* the REQ socket: "ready" to send, or "awaiting" a reply
  cmdQ,               \* the command sent and not yet received by the worker
  repQ,               \* the reply sent and not yet received by the executor
  subQ,               \* events published and not yet read from the SUB socket
  hglobals,           \* special_handler.globals_dict (variable names)
  hgen,               \* which AsyncSpecialCommandHandler object is current
  wstate,             \* worker: "idle" in its command loop, "running", "dead"
  g,                  \* the worker's namespace (variable names)
  exec_count,         \* worker_main's exec_count
  current_cell,       \* worker_main's current_cell (0: None)
  current_code,       \* the code of the cell the worker is running
  shutdown_requested, \* worker_main's shutdown_requested
  boundOk,            \* variables bound by cells completed ok since the last reset
  lastMissing,        \* those of boundOk undefined when the latest cell began
  stale,              \* variables bound before the last reset_kernel
  staleSeen,          \* those of stale defined when the latest cell began
  interrupted         \* executes an interrupt_kernel was handled during

VARIABLES
  proc,               \* NextProcessExecutor.proc: [pid, alive]
  command_queue,      \* NextProcessExecutor.command_queue
  output_queue,       \* NextProcessExecutor.output_queue
  pw,                 \* the worker process behind proc: [pid, state, ns, cell, code]
  ptasks,             \* the execute_cell calls, by order of arrival; sent: the
                      \* types of the messages the call has put on the websocket
  pint,               \* interrupt_kernel: "none", or "waiting" in its poll loop
  nPExec,             \* execute_cell calls so far
  nPInt,              \* interrupt_kernel calls so far
  nPReset,            \* reset_kernel calls so far
  nDeath,             \* worker processes the system has killed so far
  ended,              \* [pid, ns] of the worker when an interrupt last ended a cell
  later               \* [pid, missing] of the worker that began a cell after that

procVars == <<proc, command_queue, output_queue, pw, ptasks, pint, nPExec,
              nPInt, nPReset, nDeath, ended, later>>

VARIABLES
  nDisconnect,        \* websocket disconnects so far
  pod,                \* PodKernelManager.pod: "none" or "set"
  connecting,         \* _connect_to_pod_background is inside connect_to_pod
  pod_connection_error, \* server.pod_connection_error ("" for None)
  cmd_addr,           \* NextZmqExecutor.cmd_addr: "local" or "tunnel"
  pub_addr,           \* NextZmqExecutor.pub_addr: "local" or "tunnel"
  is_remote,          \* NextZmqExecutor.is_remote
  nConnect,           \* pod connect requests so far
  nPodDisconnect,     \* pod disconnect requests so far
  lostReplies,        \* replies the worker owes to a REQ socket that was closed
  lastConnect,        \* what connect_to_pod returned last: "", "ok", "error"
  reconnected         \* the executes that were polling when the sockets were re-opened

\* linkVars without lostReplies
linkRest == <<nDisconnect, pod, connecting, pod_connection_error, cmd_addr,
              pub_addr, is_remote, nConnect, nPodDisconnect, lastConnect,
              reconnected>>

linkVars == <<linkRest, lostReplies>>

VARIABLES
  current_ex,         \* the request whose command the worker is running (0: none)
  published           \* per request, the types of the events the worker published for it

pubVars == <<current_ex, published>>

zmqVars == <<linkVars, cells, tasks, nExec, nInterrupt, nReset, ws, wsCounts, blocked,
             execution_count, reqState, cmdQ, repQ, subQ, hglobals, hgen, wstate,
             g, exec_count, current_cell, current_code, shutdown_requested,
             boundOk, lastMissing, stale, staleSeen, interrupted, pubVars>>

VARIABLES
  nbCells,            \* the notebook's cell sequence (each cell by a number of its own)
  nextCell,           \* the number the next new cell gets
  clients,            \* WebSocketManager.clients, in insertion order
  peerClosed,         \* the clients whose connection is closed and still in clients
  handlers,           \* per structural message, the state of its handler task
  nHandlers,          \* structural messages received so far
  sendq,              \* per client, the handler tasks suspended in a send to it
  inbox,              \* per client, the broadcasts it has received
  nConnects           \* websocket connections accepted so far

broadcastVars == <<nbCells, nextCell, clients, peerClosed, handlers, nHandlers,
                   sendq, inbox, nConnects>>

VARIABLES
  file_path,          \* NotebookHandler.file_path
  handler_cells,      \* NotebookHandler.cells
  metadata,           \* NotebookHandler.metadata
  disk,               \* per path, whether the file exists and its text
  save_pc,            \* "open" between save_file's open() and the file's close
  save_path,          \* the path of the save in progress or last made
  save_text,          \* the text that save is writing
  save_prev,          \* ghost: the file there was when that save opened it
  last_save,          \* ghost: the notebook the last completed save wrote
  roundtrip,          \* ghost: the cells in memory were loaded from that save
  original            \* ghost: the .ipynb document the cells were loaded from

fileVars == <<file_path, handler_cells, metadata, disk, save_pc, save_path,
              save_text, save_prev, last_save, roundtrip, original>>

VARIABLES
  provider_name,      \* PodMonitor.provider_name ("" while pod_monitor is None)
  monitoring_tasks,   \* PodMonitor.monitoring_tasks: per pod id its task (0: no key)
  loops,              \* per task, the state of its _monitor_loop
  nTasks              \* tasks start_monitoring has created

monitorVars == <<provider_name, monitoring_tasks, loops, nTasks>>

VARIABLES
  out_buf,            \* _StreamForwarder.out_buf: the pieces of the unfinished stdout line
  err_buf,            \* _StreamForwarder.err_buf
  sf_pub,             \* the events the Python branch has published for the cell
  written,            \* per stream, the text the cell has written to it
  py_pc,              \* the Python branch: "idle", "running" the code, "done"
  nWrite,             \* writes and flushes of the cell so far
  impl,               \* whose Python branch runs the cell
  last,               \* the last line of the cell's code
  calls               \* times the function the last line names has run for the cell

streamVars == <<out_buf, err_buf, sf_pub, written, py_pc, nWrite, impl, last,
                calls>>

VARIABLES
  sh_pc,              \* the shell cell: "idle", "running", "streamed", "ended", "done"
  sh_path,            \* who runs it: the "worker" or the executor's "handler"
  sh_cmd,             \* the command and what its process does: [command, returncode, stdout, stderr]
  sh_events,          \* the events published (or sent on the websocket) for the cell
  sh_result           \* the result the cell ends with: [status, error, outputs]

shellVars == <<sh_pc, sh_path, sh_cmd, sh_events, sh_result>>

VARIABLES
  mgr_pod,            \* PodKernelManager.pod: the pod's id (0: None)
  ssh_tunnel_proc,    \* PodKernelManager.ssh_tunnel_proc: a process (0: None)
  tunnels,            \* the ssh tunnel processes that are alive
  nTunnel,            \* tunnel processes started so far
  ctasks,             \* the _connect_to_pod_background tasks, by order of creation
  nCTasks,            \* connect requests so far
  nTunnelDeath        \* tunnel processes that ended by themselves so far

tunnelVars == <<mgr_pod, ssh_tunnel_proc, tunnels, nTunnel, ctasks, nCTasks,
                nTunnelDeath>>

VARIABLES
  srun,               \* the latest _handle_execute_cell: [pc, cell_index, cell, count]
  stored,             \* per cell (by its number), the execution count stored on it
  nRun                \* execute_cell messages handled so far

storeVars == <<srun, stored, nRun>>

VARIABLES
  reg_pc,             \* "new" before the server process starts, "up" after
  environ,            \* per API key name, its value in the environment
  config,             \* ~/.morecompute/config.json: per key, its value
  PROVIDER_INSTANCES, \* per provider name, the API key of its cached instance
  last_call           \* the function called last and what it returned

registryVars == <<reg_pc, environ, config, PROVIDER_INSTANCES, last_call>>

extraVars == <<streamVars, shellVars, tunnelVars, storeVars, registryVars>>

\* Everything but the variables of the group named.
coreVars == <<zmqVars, procVars, broadcastVars, fileVars, monitorVars>>
notStream == <<coreVars, shellVars, tunnelVars, storeVars, registryVars>>
notShell == <<coreVars, streamVars, tunnelVars, storeVars, registryVars>>
notTunnel == <<coreVars, streamVars, shellVars, storeVars, registryVars>>
notStore == <<zmqVars, procVars, fileVars, monitorVars, streamVars, shellVars,
              tunnelVars, registryVars>>
notRegistry == <<coreVars, streamVars, shellVars, tunnelVars, storeVars>>

otherVars == <<fileVars, monitorVars, extraVars>>

sessionVars == <<broadcastVars, otherVars>>

vars == <<zmqVars, procVars, sessionVars>>

serverVars == <<cells, tasks, nExec, nInterrupt, nReset, ws, wsCounts, blocked,
                execution_count, hglobals, hgen>>
workerVars == <<wstate, g, exec_count, current_cell, current_code,
                shutdown_requested>>
ghostVars == <<boundOk, lastMissing, stale, staleSeen, interrupted, pubVars>>

\* ----------------------------------------------------------------- records
Ev(type, cell, ex, by, ec, ename, status) ==
  [type |-> type, cell_index |-> cell, ex |-> ex, by |-> by,
   execution_count |-> ec, ename |-> ename, status |-> status]

Cmd(type, cell, ec, code, ex) ==
  [type |-> type, cell_index |-> cell, execution_count |-> ec, code |-> code,
   ex |-> ex]

NewTask == [pc |-> "new", cell |-> 0, source |-> <<>>, ec |-> 0, h |-> 0,
            status |-> "ok", ename |-> "", rcount |-> 0, outputs |-> <<>>,
            cancelled_at |-> ""]

\* Cell.__init__
NewCell(type, src) ==
  [cell_type |-> type, source |-> src, outputs |-> <<>>, execution_count |-> 0]

\* -------------------------------------------------------- pure functions
\* AsyncSpecialCommandHandler.is_special_command: the text starts with `!`
\* (or a magic), or any line does.
is_special_command(src) ==
  \E i \in 1..Len(src) : src[i][1] = "shell"

\* execute_special_command's first test: stripped.startswith('!')
IsWholeShell(src) == src # <<>> /\ src[1][1] = "shell"

\* exec(compiled, g, l) of the worker: the namespace after the run and what
\* was raised ("" nothing, "loop" the code never returns).
RECURSIVE RunLines(_, _)
RunLines(lines, ns) ==
  IF lines = <<>> THEN [ns |-> ns, raised |-> ""]
  ELSE LET l == Head(lines) IN
       CASE l[1] = "assign" -> RunLines(Tail(lines), ns \cup {l[2]})
         [] l[1] = "expr" -> IF l[2] \in ns
                             THEN RunLines(Tail(lines), ns)
                             ELSE [ns |-> ns, raised |-> "NameError"]
         [] l[1] = "raise" -> [ns |-> ns, raised |-> l[2]]
         [] l[1] = "loop" -> [ns |-> ns, raised |-> "loop"]
         [] OTHER -> RunLines(Tail(lines), ns)

\* The names a source assigns.
Binds(src) == {src[i][2] : i \in {j \in 1..Len(src) : src[j][1] = "assign"}}

\* The worker's last-expression rule: the last line is re-evaluated and shown
\* when it is no statement.
ShowsResult(src) == src # <<>> /\ src[Len(src)][1] = "expr"

\* ------------------------------------------------------------------- Init
\* A worker process as multiprocessing starts it: nothing bound, no cell.
FreshWorker(pid) ==
  [pid |-> pid, state |-> "idle", ns |-> {}, cell |-> 0, code |-> <<>>]

NoWorker == [pid |-> 0, ns |-> {}]
NoLater == [pid |-> 0, missing |-> {}]
NewProcTask == [pc |-> "new", cell |-> 0, source |-> <<>>, status |-> "",
                sent |-> {}]

\* NextProcessExecutor.__init__: the fields, then _spawn_worker().
ProcInit ==
  /\ proc = [pid |-> 1, alive |-> TRUE]
  /\ command_queue = <<>>
  /\ output_queue = <<>>
  /\ pw = FreshWorker(1)
  /\ ptasks = [t \in 1..MaxProcExec |-> NewProcTask]
  /\ pint = "none"
  /\ nPExec = 0
  /\ nPInt = 0
  /\ nPReset = 0
  /\ nDeath = 0
  /\ ended = NoWorker
  /\ later = NoLater

\* The state of the websocket connections and of the pod connection.
LinkInit ==
  /\ nDisconnect = 0
  /\ pod = "none"
  /\ connecting = FALSE
  /\ pod_connection_error = ""
  /\ cmd_addr = "local"
  /\ pub_addr = "local"
  /\ is_remote = FALSE
  /\ nConnect = 0
  /\ nPodDisconnect = 0
  /\ lostReplies = 0
  /\ lastConnect = ""
  /\ reconnected = {}

\* A path with no file, the notebook no save has written and the document
\* no load has read.
NoFile == [exists |-> FALSE, text |-> <<>>]
NoSave == [valid |-> FALSE, path |-> "", cells |-> <<>>]
NoDocument == [valid |-> FALSE, doc |-> [cells |-> <<>>]]

\* NotebookHandler("nb.ipynb") where no such file exists: no cell is made
\* and the metadata is the constructor's.
FileInit ==
  /\ file_path = "nb.ipynb"
  /\ handler_cells = <<>>
  /\ metadata = "python3"
  /\ disk = [p \in {"nb.ipynb", "nb.py"} |-> NoFile]
  /\ save_pc = "idle"
  /\ save_path = ""
  /\ save_text = <<>>
  /\ save_prev = NoFile
  /\ last_save = NoSave
  /\ roundtrip = FALSE
  /\ original = NoDocument

\* A monitoring task that has not been created.
NoLoop ==
  [pod |-> 0, pc |-> "new", cancel |-> FALSE, ok |-> FALSE, sent |-> FALSE,
   status |-> "", ssh |-> FALSE]

\* server.py: pod_monitor is None until a provider is chosen.
MonitorInit ==
  /\ provider_name = ""
  /\ monitoring_tasks = [p \in 1..MaxPod |-> 0]
  /\ loops = [t \in 1..MaxTask |-> NoLoop]
  /\ nTasks = 0

\* worker_main between two cells: no forwarder, nothing published.
StreamInit ==
  /\ out_buf = <<>>
  /\ err_buf = <<>>
  /\ sf_pub = <<>>
  /\ written = [n \in {"stdout", "stderr"} |-> <<>>]
  /\ py_pc = "idle"
  /\ nWrite = 0
  /\ impl = "worker"
  /\ last = [text |-> <<"y">>, expr |-> TRUE, calls |-> 0, value |-> "7"]
  /\ calls = 0

\* No error_payload (None).
NoError == [ename |-> "", traceback |-> ""]

\* The result dict a shell cell starts with.
NewResult == [status |-> "ok", error |-> NoError, outputs |-> {}]

\* No shell cell has been run.
ShellInit ==
  /\ sh_pc = "idle"
  /\ sh_path = "worker"
  /\ sh_cmd = [command |-> "", returncode |-> 0, stdout |-> <<>>, stderr |-> <<>>]
  /\ sh_events = <<>>
  /\ sh_result = NewResult

\* A connect task that has not been created.
NoConnect == [pc |-> "new", pod_id |-> 0, result |-> ""]

\* PodKernelManager.__init__: no pod and no tunnel.
TunnelInit ==
  /\ mgr_pod = 0
  /\ ssh_tunnel_proc = 0
  /\ tunnels = {}
  /\ nTunnel = 0
  /\ ctasks = [t \in 1..MaxConnTask |-> NoConnect]
  /\ nCTasks = 0
  /\ nTunnelDeath = 0

\* No execute_cell has been handled; no cell holds a count.
StoreInit ==
  /\ srun = [pc |-> "idle", cell_index |-> 0, cell |-> 0, count |-> 0]
  /\ stored = [c \in 1..(MaxEdit + 1) |-> 0]
  /\ nRun = 0

\* The value of a key that is not there (None).
NoKey == "None"

\* The keys of the config file the registry reads and writes.
ConfigKeys == {"RUNPOD_API_KEY", "VASTAI_API_KEY", "active_provider"}

\* No config file, no provider instance made, the environment not yet read.
RegistryInit ==
  /\ reg_pc = "new"
  /\ environ = [k \in ConfigKeys |-> NoKey]
  /\ config = [k \in ConfigKeys |-> NoKey]
  /\ PROVIDER_INSTANCES = [n \in {"runpod", "vastai"} |-> "no instance"]
  /\ last_call = <<"", "">>

\* A handler task that has not been created.
NewHandler ==
  [pc |-> "new", kind |-> "", owner |-> 0, msgs |-> <<>>, snap |-> <<>>,
   pos |-> 0, used |-> 0, after |-> <<>>, audience |-> {}, saved |-> FALSE]

\* The notebook of a server started without a file (one empty cell) and no
\* client connected.
BroadcastInit ==
  /\ nbCells = <<1>>
  /\ nextCell = 2
  /\ clients = <<>>
  /\ peerClosed = {}
  /\ handlers = [h \in 1..MaxEdit |-> NewHandler]
  /\ nHandlers = 0
  /\ sendq = [c \in 1..MaxClient |-> <<>>]
  /\ inbox = [c \in 1..MaxClient |-> <<>>]
  /\ nConnects = 0

Init ==
  /\ ProcInit
  /\ LinkInit
  /\ BroadcastInit
  /\ FileInit
  /\ MonitorInit
  /\ StreamInit
  /\ ShellInit
  /\ TunnelInit
  /\ StoreInit
  /\ RegistryInit
  /\ cells = [i \in 1..NumCells |-> NewCell(NotebookTypes[i], NotebookSources[i])]
  /\ tasks = [t \in 1..MaxExec |-> NewTask]
  /\ nExec = 0
  /\ nInterrupt = 0
  /\ nReset = 0
  /\ ws = [t \in 1..MaxExec |-> <<>>]
  /\ wsCounts = <<>>
  /\ blocked = "none"
  /\ execution_count = 0
  /\ reqState = "ready"
  /\ cmdQ = <<>>
  /\ repQ = <<>>
  /\ subQ = <<>>
  /\ hglobals = {}
  /\ hgen = 0
  /\ wstate = "idle"
  /\ g = {}
  /\ exec_count = 0
  /\ current_cell = 0
  /\ current_code = <<>>
  /\ shutdown_requested = FALSE
  /\ boundOk = {}
  /\ lastMissing = {}
  /\ stale = {}
  /\ staleSeen = {}
  /\ interrupted = {}
  /\ current_ex = 0
  /\ published = [t \in 1..MaxExec |-> <<>>]

\* ------------------------------------------------ server: execute_cell
\* WebSocketManager._handle_execute_cell up to its first await: the index
\* check, the source lookup and the handler's own execution_start.
\* What _send_error sends for a cell index that is refused.
RejectEventsStarted(t) ==
  <<Ev("execution_start", 0, t, "server", execution_count + 1, "", ""),
    Ev("error", 0, t, "server", 0, "", "")>>

RejectEvents(t) == <<Ev("error", 0, t, "server", 0, "", "")>>

HandleExecuteCell(idx) ==
  /\ blocked = "none"
  /\ nExec < MaxExec
  /\ nExec' = nExec + 1
  /\ LET t == nExec + 1 IN
     IF idx \in 1..Len(cells)
     THEN /\ tasks' = [tasks EXCEPT ![t] =
                 [@ EXCEPT !.pc = "s_started", !.cell = idx,
                           !.source = cells[idx].source]]
          /\ ws' = [ws EXCEPT ![t] = Append(@, Ev("execution_start", idx, t,
                                 "server", execution_count + 1, "", ""))]
     ELSE /\ tasks' = [tasks EXCEPT ![t] = [@ EXCEPT !.pc = "invalid"]]
          /\ ws' = [ws EXCEPT ![t] = @ \o RejectEvents(t)]
  /\ UNCHANGED <<cells, wsCounts, nInterrupt, nReset, blocked, execution_count, reqState,
                 cmdQ, repQ, subQ, hglobals, hgen>>
  /\ UNCHANGED workerVars
  /\ UNCHANGED ghostVars
  /\ UNCHANGED linkVars
  /\ UNCHANGED <<procVars, sessionVars>>

\* The count NextZmqExecutor.execute_cell assigns to a request.
NextCount == execution_count + 1

\* NextZmqExecutor.execute_cell from its entry to the await of its
\* execution_start: the special-command test, the count, the message.
ExecAssign(t) ==
  /\ blocked = "none"
  /\ tasks[t].pc = "s_started"
  /\ execution_count' = NextCount
  /\ tasks' = [tasks EXCEPT ![t] =
        [@ EXCEPT !.pc = IF is_special_command(tasks[t].source)
                         THEN "sp_started" ELSE "x_started",
                  !.ec = NextCount, !.rcount = NextCount, !.h = hgen]]
  /\ ws' = [ws EXCEPT ![t] = Append(@, Ev("execution_start", tasks[t].cell,
                                          t, "executor", NextCount, "", ""))]
  /\ wsCounts' = Append(wsCounts, NextCount)
  /\ UNCHANGED <<cells, nExec, nInterrupt, nReset, blocked, reqState, cmdQ,
                 repQ, subQ, hglobals, hgen>>
  /\ UNCHANGED workerVars
  /\ UNCHANGED ghostVars
  /\ UNCHANGED linkVars
  /\ UNCHANGED <<procVars, sessionVars>>

\* self.req.send_json of the execute_cell command.  A REQ socket that awaits
\* a reply refuses to send (zmq.ZMQError, EFSM): the exception leaves
\* execute_cell and _handle_execute_cell reports it as an execution_error.
ExecSend(t) ==
  /\ blocked = "none"
  /\ tasks[t].pc = "x_started"
  /\ IF reqState = "ready"
     THEN /\ reqState' = "awaiting"
          /\ cmdQ' = Append(cmdQ, Cmd("execute_cell", tasks[t].cell,
                                      tasks[t].ec, tasks[t].source, t))
          /\ tasks' = [tasks EXCEPT ![t] = [@ EXCEPT !.pc = "polling"]]
          /\ ws' = ws
     ELSE /\ UNCHANGED <<reqState, cmdQ>>
          /\ tasks' = [tasks EXCEPT ![t] =
                [@ EXCEPT !.pc = "failed", !.status = "error",
                          !.ename = "ZMQError", !.rcount = 0]]
          /\ ws' = [ws EXCEPT ![t] = Append(@, Ev("execution_error",
                                 tasks[t].cell, t, "server", 0, "ZMQError", ""))]
  /\ UNCHANGED <<cells, wsCounts, nExec, nInterrupt, nReset, blocked, execution_count,
                 repQ, subQ, hglobals, hgen>>
  /\ UNCHANGED workerVars
  /\ UNCHANGED ghostVars
  /\ UNCHANGED linkVars
  /\ UNCHANGED <<procVars, sessionVars>>

\* What the poll loop forwards to the websocket for one event of the SUB
\* socket: nothing for the worker's execution_start or a foreign complete.
Forwarded(t, msg) ==
  CASE msg.type \in {"stream", "stream_update"} ->
         <<Ev("stream_output", msg.cell_index, t, "executor", 0, "", "")>>
    [] msg.type \in {"execute_result", "display_data"} ->
         <<Ev("execute_result", msg.cell_index, t, "executor",
              msg.execution_count, "", "")>>
    [] msg.type = "execution_error" ->
         <<Ev("execution_error", msg.cell_index, t, "executor", 0,
              msg.ename, "")>>
    [] OTHER -> <<>>

\* One turn of the poll loop that finds an event on the SUB socket.  On the
\* cell's execution_complete the loop ends, the command's reply is read and
\* the executor's execution_complete is sent.  recv_json on a REQ socket that
\* has sent nothing raises at once and the exception is swallowed; with a
\* command sent and no reply there yet it blocks the event loop.
ExecPoll(t) ==
  /\ blocked = "none"
  /\ tasks[t].pc = "polling"
  /\ subQ # <<>>
  /\ LET msg == Head(subQ) IN
     /\ subQ' = Tail(subQ)
     /\ IF msg.type = "execution_complete" /\ msg.cell_index = tasks[t].cell
        THEN /\ CASE reqState = "ready" ->
                       UNCHANGED <<repQ, reqState, blocked>>
                  [] reqState # "ready" /\ repQ # <<>> ->
                       /\ repQ' = Tail(repQ)
                       /\ reqState' = "ready"
                       /\ blocked' = "none"
                  [] OTHER ->
                       /\ UNCHANGED <<repQ, reqState>>
                       /\ blocked' = "execute"
             /\ tasks' = [tasks EXCEPT ![t] =
                   [@ EXCEPT !.pc = "x_done", !.status = msg.status,
                             !.ename = msg.ename,
                             !.rcount = msg.execution_count]]
             /\ ws' = [ws EXCEPT ![t] = Append(@, Ev("execution_complete",
                                    tasks[t].cell, t, "executor",
                                    msg.execution_count, msg.ename,
                                    msg.status))]
             /\ boundOk' = IF msg.status = "ok"
                           THEN boundOk \cup Binds(tasks[t].source)
                           ELSE boundOk
        ELSE /\ ws' = [ws EXCEPT ![t] = @ \o Forwarded(t, msg)]
             /\ UNCHANGED <<tasks, repQ, reqState, blocked, boundOk>>
  /\ UNCHANGED <<cells, wsCounts, nExec, nInterrupt, nReset, execution_count, cmdQ,
                 hglobals, hgen>>
  /\ UNCHANGED workerVars
  /\ UNCHANGED <<lastMissing, stale, staleSeen, interrupted>>
  /\ UNCHANGED pubVars
  /\ UNCHANGED linkVars
  /\ UNCHANGED <<procVars, sessionVars>>

\* _handle_execute_cell after execute_cell returned or raised: the result is
\* stored on the cell and the handler's own execution_complete is sent.
ExecStore(t) ==
  /\ blocked = "none"
  /\ tasks[t].pc \in {"x_done", "failed"}
  /\ cells' = [cells EXCEPT ![tasks[t].cell] =
        [@ EXCEPT !.outputs = tasks[t].outputs,
                  !.execution_count = tasks[t].rcount]]
  /\ ws' = [ws EXCEPT ![t] = Append(@, Ev("execution_complete", tasks[t].cell,
                         t, "server", tasks[t].rcount, tasks[t].ename,
                         tasks[t].status))]
  /\ tasks' = [tasks EXCEPT ![t] = [@ EXCEPT !.pc = "done"]]
  /\ UNCHANGED <<wsCounts, nExec, nInterrupt, nReset, blocked, execution_count, reqState,
                 cmdQ, repQ, subQ, hglobals, hgen>>
  /\ UNCHANGED workerVars
  /\ UNCHANGED ghostVars
  /\ UNCHANGED linkVars
  /\ UNCHANGED <<procVars, sessionVars>>

\* --------------------------------------- server: special-command cells
\* CellMagicHandlers.execute_cell_content, called for a cell that mixes Python
\* with `!` lines: the cell is run against the handler's own globals_dict,
\* in the server process.
ExecuteCellContent(src, globals) == RunLines(src, globals)

\* AsyncSpecialCommandHandler.execute_special_command up to its first await.
\* A cell starting with `!` goes to _execute_shell_command, which announces
\* the command and starts the subprocess.  A mixed cell is run by
\* execute_cell_content; execute_cell then sends its execution_complete.
SpecialRun(t) ==
  /\ blocked = "none"
  /\ tasks[t].pc = "sp_started"
  /\ IF IsWholeShell(tasks[t].source)
     THEN /\ tasks' = [tasks EXCEPT ![t] = [@ EXCEPT !.pc = "sh_running"]]
          /\ ws' = [ws EXCEPT ![t] = Append(@, Ev("execution_start",
                                 tasks[t].cell, t, "shell", 0, "", ""))]
          /\ UNCHANGED <<hglobals, boundOk, lastMissing, staleSeen, stale>>
     ELSE LET mine == tasks[t].h = hgen
              r == ExecuteCellContent(tasks[t].source,
                                      IF mine THEN hglobals ELSE {})
              st == IF r.raised = "" THEN "ok" ELSE "error"
          IN /\ hglobals' = IF mine THEN r.ns ELSE hglobals
             /\ tasks' = [tasks EXCEPT ![t] =
                   [@ EXCEPT !.pc = "x_done", !.status = st,
                             !.ename = r.raised]]
             /\ ws' = [ws EXCEPT ![t] = Append(@, Ev("execution_complete",
                                    tasks[t].cell, t, "executor", tasks[t].ec,
                                    r.raised, st))]
             /\ lastMissing' = IF mine THEN boundOk \ hglobals ELSE lastMissing
             /\ staleSeen' = IF mine THEN stale \cap hglobals ELSE staleSeen
             /\ stale' = IF mine THEN stale \ Binds(tasks[t].source) ELSE stale
             /\ boundOk' = IF st = "ok" /\ mine
                           THEN boundOk \cup Binds(tasks[t].source)
                           ELSE boundOk
  /\ UNCHANGED <<cells, wsCounts, nExec, nInterrupt, nReset, blocked, execution_count,
                 reqState, cmdQ, repQ, subQ, hgen, interrupted>>
  /\ UNCHANGED pubVars
  /\ UNCHANGED workerVars
  /\ UNCHANGED linkVars
  /\ UNCHANGED <<procVars, sessionVars>>

\* _execute_shell_command once the subprocess has ended: its output is
\* streamed and the command's own execution_complete is sent.
ShellFinish(t) ==
  /\ blocked = "none"
  /\ tasks[t].pc = "sh_running"
  /\ tasks' = [tasks EXCEPT ![t] =
        [@ EXCEPT !.pc = "sh_done", !.outputs = <<"stream">>]]
  /\ ws' = [ws EXCEPT ![t] = @ \o
        <<Ev("stream_output", tasks[t].cell, t, "shell", 0, "", ""),
          Ev("execution_complete", tasks[t].cell, t, "shell", 0, "", "ok")>>]
  /\ UNCHANGED <<cells, wsCounts, nExec, nInterrupt, nReset, blocked, execution_count,
                 reqState, cmdQ, repQ, subQ, hglobals, hgen>>
  /\ UNCHANGED workerVars
  /\ UNCHANGED ghostVars
  /\ UNCHANGED linkVars
  /\ UNCHANGED <<procVars, sessionVars>>

\* execute_cell after execute_special_command returned from a shell command.
ShellReturn(t) ==
  /\ blocked = "none"
  /\ tasks[t].pc = "sh_done"
  /\ tasks' = [tasks EXCEPT ![t] = [@ EXCEPT !.pc = "x_done"]]
  /\ ws' = [ws EXCEPT ![t] = Append(@, Ev("execution_complete", tasks[t].cell,
                         t, "executor", tasks[t].ec, "", tasks[t].status))]
  /\ UNCHANGED <<cells, wsCounts, nExec, nInterrupt, nReset, blocked, execution_count,
                 reqState, cmdQ, repQ, subQ, hglobals, hgen>>
  /\ UNCHANGED workerVars
  /\ UNCHANGED ghostVars
  /\ UNCHANGED linkVars
  /\ UNCHANGED <<procVars, sessionVars>>

\* ------------------------------------------ server: interrupt and reset
\* The execute whose cell the worker is running.
RunningTasks ==
  {t \in 1..MaxExec : tasks[t].pc = "polling" /\ wstate = "running"}

\* _handle_interrupt_kernel and NextZmqExecutor.interrupt_kernel.  With the
\* REQ socket awaiting the reply of an execute, send_json raises and the
\* exception is swallowed; special_handler.interrupt() is a placeholder.
HandleInterrupt(ci) ==
  /\ blocked = "none"
  /\ nInterrupt < MaxInterrupt
  /\ nInterrupt' = nInterrupt + 1
  /\ IF reqState = "ready"
     THEN /\ reqState' = "awaiting"
          /\ cmdQ' = Append(cmdQ, Cmd("interrupt", ci, 0, <<>>, 0))
          /\ blocked' = "interrupt"
     ELSE UNCHANGED <<reqState, cmdQ, blocked>>
  /\ interrupted' = interrupted \cup RunningTasks
  /\ UNCHANGED <<cells, tasks, nExec, nReset, ws, wsCounts, execution_count, repQ, subQ,
                 hglobals, hgen>>
  /\ UNCHANGED workerVars
  /\ UNCHANGED <<boundOk, lastMissing, stale, staleSeen>>
  /\ UNCHANGED pubVars
  /\ UNCHANGED linkVars
  /\ UNCHANGED <<procVars, sessionVars>>

\* A reset_kernel that forgets to clear the count.
ResetCountKept == execution_count

\* The value reset_kernel gives execution_count.
ResetCount == 0

\* Notebook.clear_all_outputs: outputs and execution counts are wiped.
clear_all_outputs(cs) ==
  [i \in DOMAIN cs |-> [cs[i] EXCEPT !.outputs = <<>>, !.execution_count = 0]]

\* The kernel_restarted broadcast, as it stands among the counts in wsCounts.
KernelRestarted == 0

\* reset_kernel after its try block, and the rest of _handle_reset_kernel: the
\* outputs are cleared, kernel_restarted and the notebook are broadcast.
ResetTail ==
  /\ execution_count' = ResetCount
  /\ hglobals' = {}
  /\ hgen' = hgen + 1
  /\ cells' = clear_all_outputs(cells)
  /\ wsCounts' = Append(wsCounts, KernelRestarted)
  /\ ws' = ws

\* _handle_reset_kernel and NextZmqExecutor.reset_kernel: the shutdown command
\* is sent when the REQ socket allows it; otherwise send_json raises, the
\* exception is swallowed and only the executor's own state is reset.
HandleReset ==
  /\ blocked = "none"
  /\ nReset < MaxReset
  /\ nReset' = nReset + 1
  /\ boundOk' = {}
  /\ stale' = g \cup hglobals
  /\ IF reqState = "ready"
     THEN /\ reqState' = "awaiting"
          /\ cmdQ' = Append(cmdQ, Cmd("shutdown", 0, 0, <<>>, 0))
          /\ blocked' = "reset"
          /\ UNCHANGED <<execution_count, hglobals, hgen, cells, ws, wsCounts>>
     ELSE /\ ResetTail
          /\ UNCHANGED <<reqState, cmdQ, blocked>>
  /\ UNCHANGED <<tasks, nExec, nInterrupt, repQ, subQ>>
  /\ UNCHANGED workerVars
  /\ UNCHANGED <<lastMissing, staleSeen, interrupted>>
  /\ UNCHANGED pubVars
  /\ UNCHANGED linkVars
  /\ UNCHANGED <<procVars, sessionVars>>

\* The blocking self.req.recv_json() of interrupt_kernel, reset_kernel or
\* execute_cell returns: the handler goes on.
ServerRecvReply ==
  /\ blocked # "none"
  /\ repQ # <<>>
  /\ repQ' = Tail(repQ)
  /\ reqState' = "ready"
  /\ blocked' = "none"
  /\ IF blocked = "reset"
     THEN ResetTail
     ELSE UNCHANGED <<execution_count, hglobals, hgen, cells, ws, wsCounts>>
  /\ UNCHANGED <<tasks, nExec, nInterrupt, nReset, cmdQ, subQ>>
  /\ UNCHANGED workerVars
  /\ UNCHANGED ghostVars
  /\ UNCHANGED linkVars
  /\ UNCHANGED <<procVars, sessionVars>>

\* ---------------------------------------------------------------- worker
OkReply == [ok |-> TRUE]

\* rep.send_json of a reply: the reply to a command that came from a REQ
\* socket closed since goes nowhere.
Replied(q) == IF lostReplies > 0 THEN q ELSE Append(q, OkReply)

AfterReply == IF lostReplies > 0 THEN lostReplies - 1 ELSE lostReplies

\* The command types worker_main has a branch for.
KnownTypes == {"ping", "shutdown", "interrupt", "execute_cell"}

\* worker_main, mtype == 'ping': the reply.
WorkerPing ==
  /\ wstate = "idle"
  /\ cmdQ # <<>>
  /\ Head(cmdQ).type = "ping"
  /\ cmdQ' = Tail(cmdQ)
  /\ repQ' = Replied(repQ)
  /\ lostReplies' = AfterReply
  /\ UNCHANGED <<wstate, g, exec_count, current_cell, current_code,
                 shutdown_requested, subQ, reqState>>
  /\ UNCHANGED serverVars
  /\ UNCHANGED ghostVars
  /\ UNCHANGED linkRest
  /\ UNCHANGED <<procVars, sessionVars>>

\* worker_main, a message whose type no branch matches (msg.get('type') is
\* None for a missing type): nothing is sent and the loop goes back to
\* rep.recv_json().  A REP socket that has received must send before it
\* receives again, so this and every later recv_json raises ZMQError, which
\* `except Exception: continue` swallows: the worker reads no command again.
WorkerUnknown ==
  /\ wstate = "idle"
  /\ cmdQ # <<>>
  /\ Head(cmdQ).type \notin KnownTypes
  /\ cmdQ' = Tail(cmdQ)
  /\ wstate' = "deaf"
  /\ UNCHANGED <<g, exec_count, current_cell, current_code,
                 shutdown_requested, repQ, subQ, reqState>>
  /\ UNCHANGED serverVars
  /\ UNCHANGED ghostVars
  /\ UNCHANGED linkVars
  /\ UNCHANGED <<procVars, sessionVars>>

\* worker_main, mtype == 'shutdown': the reply, then shutdown_requested.
WorkerShutdown ==
  /\ wstate = "idle"
  /\ cmdQ # <<>>
  /\ Head(cmdQ).type = "shutdown"
  /\ cmdQ' = Tail(cmdQ)
  /\ repQ' = Replied(repQ)
  /\ lostReplies' = AfterReply
  /\ shutdown_requested' = TRUE
  /\ UNCHANGED <<wstate, g, exec_count, current_cell, current_code, subQ,
                 reqState>>
  /\ UNCHANGED serverVars
  /\ UNCHANGED ghostVars
  /\ UNCHANGED linkRest
  /\ UNCHANGED <<procVars, sessionVars>>

\* worker_main, zmq.Again (or another exception of recv_json) with
\* shutdown_requested: the loop is left and the process ends.  The 100 ms
\* receive timeout may expire before or after the next command arrives.
WorkerExit ==
  /\ wstate \in {"idle", "deaf"}
  /\ shutdown_requested
  /\ wstate' = "dead"
  /\ UNCHANGED <<g, exec_count, current_cell, current_code,
                 shutdown_requested, cmdQ, repQ, subQ, reqState>>
  /\ UNCHANGED serverVars
  /\ UNCHANGED ghostVars
  /\ UNCHANGED linkVars
  /\ UNCHANGED <<procVars, sessionVars>>

\* Whether the interrupt branch signals the process: requested is None or is
\* the current cell.
InterruptSignals(requested) == requested = 0 \/ requested = current_cell

\* worker_main, mtype == 'interrupt'.  os.kill(os.getpid(), SIGINT) runs
\* signal.default_int_handler in the command loop, outside the try block of
\* a cell: KeyboardInterrupt is no Exception, nothing catches it and
\* worker_main ends.  The interpreter raises it at its next check for
\* signals, before or after rep.send_json.
WorkerInterrupt ==
  /\ wstate = "idle"
  /\ cmdQ # <<>>
  /\ Head(cmdQ).type = "interrupt"
  /\ cmdQ' = Tail(cmdQ)
  /\ IF InterruptSignals(Head(cmdQ).cell_index)
     THEN /\ wstate' = "dead"
          /\ \E replied \in BOOLEAN :
               /\ repQ' = IF replied THEN Replied(repQ) ELSE repQ
               /\ lostReplies' = IF replied THEN AfterReply ELSE lostReplies
     ELSE /\ wstate' = wstate
          /\ repQ' = Replied(repQ)
          /\ lostReplies' = AfterReply
  /\ UNCHANGED <<g, exec_count, current_cell, current_code,
                 shutdown_requested, subQ, reqState>>
  /\ UNCHANGED serverVars
  /\ UNCHANGED ghostVars
  /\ UNCHANGED linkRest
  /\ UNCHANGED <<procVars, sessionVars>>

\* worker_main, mtype == 'execute_cell', up to the start of the user code:
\* current_cell, exec_count and the execution_start event.
WorkerExecBegin ==
  /\ wstate = "idle"
  /\ cmdQ # <<>>
  /\ Head(cmdQ).type = "execute_cell"
  /\ LET msg == Head(cmdQ) IN
     /\ cmdQ' = Tail(cmdQ)
     /\ current_cell' = msg.cell_index
     /\ current_code' = msg.code
     /\ exec_count' = msg.execution_count - 1
     /\ subQ' = Append(subQ, Ev("execution_start", msg.cell_index, msg.ex,
                                "worker", msg.execution_count, "", ""))
  /\ wstate' = "running"
  /\ current_ex' = Head(cmdQ).ex
  /\ published' =
       IF Head(cmdQ).ex \in DOMAIN published
       THEN [published EXCEPT ![Head(cmdQ).ex] = Append(@, "execution_start")]
       ELSE published
  /\ lastMissing' = boundOk \ g
  /\ staleSeen' = stale \cap g
  /\ UNCHANGED <<g, shutdown_requested, repQ, reqState>>
  /\ UNCHANGED serverVars
  /\ UNCHANGED <<boundOk, stale, interrupted>>
  /\ UNCHANGED linkVars
  /\ UNCHANGED <<procVars, sessionVars>>

\* The exceptions the cell's `except Exception` clause catches.
Caught(raised) == raised \in ExceptionClasses

\* The events the worker publishes when a cell's code has ended.
FinishEvents(cell, code, raised, count) ==
  IF raised = ""
  THEN (IF ShowsResult(code)
        THEN <<Ev("execute_result", cell, 0, "worker", count, "", "")>>
        ELSE <<>>)
       \o <<Ev("execution_complete", cell, 0, "worker", count, "", "ok")>>
  ELSE <<Ev("execution_error", cell, 0, "worker", 0, raised, ""),
         Ev("execution_complete", cell, 0, "worker", count, raised, "error")>>

\* The types of the events of a sequence.
EventTypes(q) == [i \in 1..Len(q) |-> q[i].type]

\* worker_main, the cell's code has run: a result or a caught exception is
\* published with execution_complete and the command is answered.  An
\* exception that is no Exception (SystemExit) leaves worker_main: the
\* process ends with nothing published and no reply.  A cell that loops is
\* ended by nothing but a signal, and this worker reads no command (so sends
\* itself no signal) while a cell runs.
WorkerExecFinish ==
  /\ wstate = "running"
  /\ LET r == RunLines(current_code, g) IN
     /\ r.raised # "loop"
     /\ g' = r.ns
     /\ stale' = stale \ Binds(current_code)
     /\ IF r.raised = "" \/ Caught(r.raised)
        THEN /\ wstate' = "idle"
             /\ exec_count' = exec_count + 1
             /\ subQ' = subQ \o FinishEvents(current_cell, current_code,
                                             r.raised, exec_count + 1)
             /\ repQ' = Replied(repQ)
             /\ lostReplies' = AfterReply
             /\ current_cell' = 0
             /\ published' =
                  IF current_ex \in DOMAIN published
                  THEN [published EXCEPT ![current_ex] = @ \o EventTypes(
                          FinishEvents(current_cell, current_code,
                                       r.raised, exec_count + 1))]
                  ELSE published
        ELSE /\ wstate' = "dead"
             /\ UNCHANGED <<exec_count, subQ, repQ, current_cell, lostReplies,
                            published>>
     /\ current_ex' = 0
  /\ UNCHANGED <<current_code, shutdown_requested, cmdQ, reqState>>
  /\ UNCHANGED serverVars
  /\ UNCHANGED <<boundOk, lastMissing, staleSeen, interrupted>>
  /\ UNCHANGED linkRest
  /\ UNCHANGED <<procVars, sessionVars>>

\* ------------------------------------------------ server: disconnect
\* The points at which a message handler task is suspended in an await.
SuspendedAt ==
  {"s_started", "x_started", "sp_started", "polling", "sh_running",
   "sh_done", "x_done", "failed"}

\* handle_message_loop on WebSocketDisconnect: the client is removed and
\* every pending handler task of the connection is cancelled.  CancelledError
\* is raised at the await the task is suspended in; it is no Exception, so
\* neither _handle_execute_cell nor execute_cell catches it: an execute in
\* its poll loop never reads the command's reply and stores no result.
\* The messages after it come from a new connection.
Disconnect ==
  /\ blocked = "none"
  /\ nDisconnect < MaxDisconnect
  /\ nDisconnect' = nDisconnect + 1
  /\ tasks' = [t \in DOMAIN tasks |->
                 IF tasks[t].pc \in SuspendedAt
                 THEN [tasks[t] EXCEPT !.pc = "cancelled",
                                       !.cancelled_at = tasks[t].pc]
                 ELSE tasks[t]]
  /\ UNCHANGED <<cells, nExec, nInterrupt, nReset, ws, wsCounts, blocked,
                 execution_count, reqState, cmdQ, repQ, subQ, hglobals, hgen>>
  /\ UNCHANGED <<pod, connecting, pod_connection_error, cmd_addr, pub_addr,
                 is_remote, nConnect, nPodDisconnect, lostReplies, lastConnect,
                 reconnected>>
  /\ UNCHANGED workerVars
  /\ UNCHANGED ghostVars
  /\ UNCHANGED <<procVars, sessionVars>>

\* ------------------------------------------------- pod connect / disconnect

\* reconnect_zmq_sockets(executor, cmd_addr, pub_addr): the executor's
\* addresses are set, is_remote follows the tunnelled ports, and both sockets
\* are closed with linger 0 and opened again.  What the old sockets held is
\* gone: events not yet read, a reply not yet read; a reply the worker has
\* still to send goes nowhere.  Commands already delivered stay with the
\* worker.  The new REQ socket has sent nothing.
ReconnectSockets(cmd, pub) ==
  /\ cmd_addr' = cmd
  /\ pub_addr' = pub
  /\ is_remote' = (cmd = "tunnel" \/ pub = "tunnel")
  /\ reqState' = "ready"
  /\ lostReplies' = IF reqState = "awaiting" /\ repQ = <<>>
                    THEN lostReplies + 1 ELSE lostReplies
  /\ repQ' = <<>>
  /\ subQ' = <<>>
  /\ reconnected' = reconnected \cup {t \in DOMAIN tasks : tasks[t].pc = "polling"}

\* The parameters of reconnect_zmq_sockets.
ReconnectParams == {"executor", "cmd_addr", "pub_addr"}

\* A call of reconnect_zmq_sockets with the arguments it has parameters for.
ConnectKeywordsAccepted == ReconnectParams

\* The arguments _connect_to_pod_background passes to reconnect_zmq_sockets.
ConnectKeywords == {"executor", "cmd_addr", "pub_addr", "is_remote"}

\* POST /api/gpu/pods/{pod_id}/connect: the background task clears the last
\* error, drops the pod it had and enters connect_to_pod, which records the pod
\* and waits for the tunnel and the remote worker.
PodConnectBegin ==
  /\ blocked = "none"
  /\ ~connecting
  /\ nConnect < MaxConnect
  /\ nConnect' = nConnect + 1
  /\ pod_connection_error' = ""
  /\ pod' = "set"
  /\ connecting' = TRUE
  /\ lastConnect' = ""
  /\ UNCHANGED <<nDisconnect, cmd_addr, pub_addr, is_remote, nPodDisconnect,
                 lostReplies, reconnected>>
  /\ UNCHANGED <<serverVars, workerVars, ghostVars, reqState, cmdQ, repQ, subQ>>
  /\ UNCHANGED <<procVars, sessionVars>>

\* connect_to_pod returns.  With status ok the task calls
\* reconnect_zmq_sockets; a call with a keyword the function does not have
\* raises TypeError before the function's body runs, and the task's handler of
\* Exception records the error and disconnects the pod.  With another status
\* the message is recorded and the pod disconnected.
PodConnectEnd ==
  /\ blocked = "none"
  /\ connecting
  /\ connecting' = FALSE
  /\ \E status \in {"ok", "error"} :
       /\ lastConnect' = status
       /\ IF status = "ok" /\ ConnectKeywords \subseteq ReconnectParams
          THEN /\ ReconnectSockets("tunnel", "tunnel")
               /\ UNCHANGED <<pod, pod_connection_error>>
          ELSE /\ pod_connection_error' =
                    IF status = "ok" THEN "TypeError" ELSE "Connection failed"
               /\ pod' = "none"
               /\ UNCHANGED <<cmd_addr, pub_addr, is_remote, reqState,
                              lostReplies, repQ, subQ, reconnected>>
  /\ UNCHANGED <<nDisconnect, nConnect, nPodDisconnect>>
  /\ UNCHANGED <<serverVars, workerVars, ghostVars, cmdQ>>
  /\ UNCHANGED <<procVars, sessionVars>>

\* POST /api/gpu/pods/disconnect: nothing without a pod; otherwise the pod is
\* disconnected and reset_to_local_zmq re-opens the sockets on the local
\* addresses.
PodDisconnect ==
  /\ blocked = "none"
  /\ nPodDisconnect < MaxPodDisconnect
  /\ nPodDisconnect' = nPodDisconnect + 1
  /\ IF pod = "none"
     THEN UNCHANGED <<pod, cmd_addr, pub_addr, is_remote, reqState,
                      lostReplies, repQ, subQ, reconnected, lastConnect>>
     ELSE /\ pod' = "none"
          /\ lastConnect' = ""
          /\ ReconnectSockets("local", "local")
  /\ UNCHANGED <<nDisconnect, connecting, pod_connection_error, nConnect>>
  /\ UNCHANGED <<serverVars, workerVars, ghostVars, cmdQ>>
  /\ UNCHANGED <<procVars, sessionVars>>

\* ------------------------------------------------------- specification
\* The cell_index of an interrupt_kernel message: absent, or a cell.
InterruptTargets == {0, NumCells}

\* The steps of the execute_cell handler tasks.
ExecServerStep ==
  \E t \in 1..MaxExec :
    \/ ExecAssign(t)
    \/ ExecSend(t)
    \/ ExecPoll(t)
    \/ ExecStore(t)
    \/ SpecialRun(t)
    \/ ShellFinish(t)
    \/ ShellReturn(t)

ServerStep ==
  \/ ExecServerStep
  \/ ServerRecvReply

WorkerStep ==
  \/ WorkerShutdown
  \/ WorkerExit
  \/ WorkerInterrupt
  \/ WorkerExecBegin
  \/ WorkerExecFinish

ClientStep ==
  \/ \E idx \in 0..NumCells : HandleExecuteCell(idx)
  \/ \E ci \in InterruptTargets : HandleInterrupt(ci)
  \/ HandleReset

Next == ClientStep \/ ServerStep \/ WorkerStep

Spec == Init /\ [][Next]_vars

\* The asyncio loop runs every task that can run and the worker process
\* keeps running; a client need not send anything.
FairSpec == Spec /\ WF_vars(ServerStep) /\ WF_vars(WorkerStep)

\* A session in which clients execute cells and connections come and go.
ExecWorkerStep ==
  \/ WorkerExecBegin
  \/ WorkerExecFinish

LinkNext ==
  \/ \E idx \in 0..NumCells : HandleExecuteCell(idx)
  \/ Disconnect
  \/ PodConnectBegin
  \/ PodConnectEnd
  \/ PodDisconnect
  \/ ExecServerStep
  \/ ServerRecvReply
  \/ ExecWorkerStep

LinkSpec == Init /\ [][LinkNext]_vars

\* Execute requests alone, with cell indexes that are missing (-1), negative
\* (0, the cell before the first) and just past the last cell among them.
IndexInputs == {-1, 0, 1, 2, NumCells + 1}

IndexNext ==
  \/ \E idx \in IndexInputs : HandleExecuteCell(idx)
  \/ \E t \in 1..MaxExec : \/ ExecAssign(t)
                           \/ ExecSend(t)
                           \/ ExecPoll(t)
                           \/ ExecStore(t)
  \/ ExecWorkerStep

IndexSpec == Init /\ [][IndexNext]_vars

\* Pod connects and disconnects around the executes of one cell.
PodNext ==
  \/ PodConnectBegin
  \/ PodConnectEnd
  \/ PodDisconnect
  \/ HandleExecuteCell(1)
  \/ \E t \in 1..MaxExec : \/ ExecAssign(t)
                           \/ ExecSend(t)
                           \/ ExecPoll(t)
                           \/ ExecStore(t)
  \/ ExecWorkerStep

PodSpec == Init /\ [][PodNext]_vars

\* The worker alone, with a peer on its two channels that sends commands of
\* any type one at a time, reads the replies and reads the events.
CommandTypes == KnownTypes \cup {"", "bogus"}

\* What rep.recv_json() can return: the peer's REQ socket sends a command
\* once it has read the reply to the one before and the events published so
\* far.
ChannelSend ==
  /\ reqState = "ready"
  /\ subQ = <<>>
  /\ \E type \in CommandTypes, cell \in 0..NumCells, count \in 1..MaxCount :
       /\ type = "execute_cell" => cell # 0
       /\ type # "execute_cell" => count = 1
       /\ type \notin {"execute_cell", "interrupt"} => cell = 0
       /\ cmdQ' = Append(cmdQ, Cmd(type, cell, count,
                          IF type = "execute_cell" THEN NotebookSources[cell]
                          ELSE <<>>, 0))
  /\ reqState' = "awaiting"
  /\ UNCHANGED <<repQ, subQ>>
  /\ UNCHANGED <<serverVars, workerVars, ghostVars, linkVars>>
  /\ UNCHANGED <<procVars, sessionVars>>

\* rep.send_json delivers: the peer reads the reply.
ChannelRecv ==
  /\ reqState = "awaiting"
  /\ repQ # <<>>
  /\ repQ' = Tail(repQ)
  /\ reqState' = "ready"
  /\ UNCHANGED <<cmdQ, subQ>>
  /\ UNCHANGED <<serverVars, workerVars, ghostVars, linkVars>>
  /\ UNCHANGED <<procVars, sessionVars>>

\* pub.send_json delivers: the peer reads an event.
ChannelEvent ==
  /\ subQ # <<>>
  /\ subQ' = Tail(subQ)
  /\ UNCHANGED <<cmdQ, repQ, reqState>>
  /\ UNCHANGED <<serverVars, workerVars, ghostVars, linkVars>>
  /\ UNCHANGED <<procVars, sessionVars>>

WorkerNext ==
  \/ ChannelSend
  \/ ChannelRecv
  \/ ChannelEvent
  \/ WorkerPing
  \/ WorkerUnknown
  \/ WorkerStep

WorkerSpec == Init /\ [][WorkerNext]_vars

\* ------------------------------------------- notebook edits and broadcasts
\* list.insert(index, x): a negative index counts from the end, and an index
\* outside the list is clamped to its ends.  Indexes are Python's (from 0).
ListInsert(s, index, x) ==
  LET n == Len(s)
      k == IF index < 0
           THEN (IF index + n < 0 THEN 0 ELSE index + n)
           ELSE (IF index > n THEN n ELSE index)
  IN SubSeq(s, 1, k) \o <<x>> \o SubSeq(s, k + 1, n)

\* NotebookHandler.add_cell: -1 appends, any other index is list.insert.
add_cell(s, index, cell) ==
  IF index = -1 THEN Append(s, cell) ELSE ListInsert(s, index, cell)

\* NotebookHandler.delete_cell: only an index within the list deletes.
delete_cell(s, index) ==
  IF 0 <= index /\ index < Len(s)
  THEN SubSeq(s, 1, index) \o SubSeq(s, index + 2, Len(s))
  ELSE s

\* Notebook.move_cell: the cell at from_index is taken out and put back at
\* to_index; indexes outside the list change nothing.
move_cell(s, from, to) ==
  IF 0 <= from /\ from < Len(s) /\ 0 <= to /\ to < Len(s)
  THEN ListInsert(delete_cell(s, from), to, s[from + 1])
  ELSE s

\* The clients dict: a deleted key leaves a hole (0) in the entries, which an
\* iterator created before the deletion steps over.
LiveClients == {clients[i] : i \in DOMAIN clients} \ {0}

\* The messages a handler broadcasts, in order.
BroadcastsOf(kind) ==
  IF kind = "reset_kernel"
  THEN <<"kernel_restarted", "notebook_updated">>
  ELSE <<"notebook_updated">>

\* A send that puts the handler behind the sends already waiting on the
\* connection in the wrong place: in front of them.
EnqueueFirst(q, h) == <<h>> \o q

\* await client.send_json(...): the sends to one connection are taken in the
\* order they were made.
Enqueue(q, h) == Append(q, h)

RECURSIVE NextSend(_, _, _, _, _)
\* The handler h goes on with its broadcasts from entry p of the clients it
\* iterates over: hs and qs are the handler tasks and the send queues so far,
\* nb the notebook as it is.
\* The for statement raises RuntimeError when the dict has changed size since
\* the iteration began.  A send to a closed connection raises: an exception
\* broadcast_pod_update swallows (it goes on with the next client) and
\* broadcast_notebook_update lets through (the handler ends).  After the last
\* client of kernel_restarted, broadcast_notebook_update takes its snapshot and
\* starts over.
NextSend(hs, qs, h, p, nb) ==
  LET t == hs[h] IN
  IF t.msgs = <<>>
  THEN [hs |-> [hs EXCEPT ![h] = [@ EXCEPT !.pc = "done"]], qs |-> qs]
  ELSE IF Cardinality(LiveClients) # t.used
  THEN [hs |-> [hs EXCEPT ![h] = [@ EXCEPT !.pc = "failed"]], qs |-> qs]
  ELSE IF p > Len(clients)
  THEN NextSend([hs EXCEPT ![h] = [@ EXCEPT !.msgs = Tail(t.msgs),
                                            !.snap = nb]],
                qs, h, 1, nb)
  ELSE IF clients[p] = 0
  THEN NextSend(hs, qs, h, p + 1, nb)
  ELSE IF clients[p] \in peerClosed
  THEN (IF Head(t.msgs) = "kernel_restarted"
        THEN NextSend(hs, qs, h, p + 1, nb)
        ELSE [hs |-> [hs EXCEPT ![h] = [@ EXCEPT !.pc = "failed"]], qs |-> qs])
  ELSE [hs |-> [hs EXCEPT ![h] = [@ EXCEPT !.pc = "sending", !.pos = p]],
        qs |-> [qs EXCEPT ![clients[p]] = Enqueue(@, h)]]

\* The structural messages a client can send on a notebook s: a cell added
\* in front or at the end, the first cell or a cell past the end deleted, the
\* first cell moved to the end, a reset.
EditInputs(s) ==
  {[kind |-> "add_cell", a |-> i, b |-> 0] : i \in {-1, 0}}
  \cup {[kind |-> "delete_cell", a |-> i, b |-> 0] : i \in {0, Len(s)}}
  \cup {[kind |-> "move_cell", a |-> 0, b |-> Len(s) - 1]}
  \cup {[kind |-> "reset_kernel", a |-> 0, b |-> 0]}

\* The notebook after a structural message.
Mutated(s, m) ==
  CASE m.kind = "add_cell" -> add_cell(s, m.a, nextCell)
    [] m.kind = "delete_cell" -> delete_cell(s, m.a)
    [] m.kind = "move_cell" -> move_cell(s, m.a, m.b)
    [] OTHER -> s

\* _handle_add_cell, _handle_delete_cell, _handle_move_cell and the
\* broadcasts of _handle_reset_kernel, up to the first send that suspends:
\* the notebook is changed, saved (a failure of the save is caught), and the
\* broadcast begins with the notebook as it is.
HandleEdit(c, m, saveOk) ==
  /\ nHandlers < MaxEdit
  /\ c \in LiveClients \ peerClosed
  /\ nHandlers' = nHandlers + 1
  /\ nbCells' = Mutated(nbCells, m)
  /\ nextCell' = IF m.kind = "add_cell" THEN nextCell + 1 ELSE nextCell
  /\ LET h == nHandlers + 1
         begun == [handlers EXCEPT ![h] =
                     [pc |-> "sending", kind |-> m.kind, owner |-> c,
                      msgs |-> BroadcastsOf(m.kind),
                      snap |-> Mutated(nbCells, m),
                      pos |-> 1, used |-> Cardinality(LiveClients),
                      after |-> Mutated(nbCells, m),
                      audience |-> LiveClients \ peerClosed,
                      saved |-> saveOk /\ m.kind # "reset_kernel"]]
         r == NextSend(begun, sendq, h, 1, Mutated(nbCells, m))
     IN /\ handlers' = r.hs
        /\ sendq' = r.qs
  /\ UNCHANGED <<clients, peerClosed, inbox, nConnects>>
  /\ UNCHANGED <<zmqVars, procVars, otherVars>>

\* A broadcast as a client receives it.
Received(h, t) == [type |-> Head(t.msgs), id |-> h, data |-> t.snap]

\* A send to client c returns: the message is with the client, and the
\* handler goes on to the next client without suspending in between.
SendDone(c) ==
  /\ sendq[c] # <<>>
  /\ c \notin peerClosed
  /\ LET h == Head(sendq[c])
         r == NextSend(handlers, [sendq EXCEPT ![c] = Tail(@)], h,
                       handlers[h].pos + 1, nbCells)
     IN /\ inbox' = [inbox EXCEPT ![c] = Append(@, Received(h, handlers[h]))]
        /\ handlers' = r.hs
        /\ sendq' = r.qs
  /\ UNCHANGED <<nbCells, nextCell, clients, peerClosed, nHandlers, nConnects>>
  /\ UNCHANGED <<zmqVars, procVars, otherVars>>

\* WebSocketManager.connect: the client is added and gets notebook_data.
Connect ==
  /\ nConnects < MaxClient
  /\ nConnects' = nConnects + 1
  /\ clients' = Append(clients, nConnects + 1)
  /\ inbox' = [inbox EXCEPT ![nConnects + 1] =
        Append(@, [type |-> "notebook_data", id |-> 0, data |-> nbCells])]
  /\ UNCHANGED <<nbCells, nextCell, peerClosed, handlers, nHandlers, sendq>>
  /\ UNCHANGED <<zmqVars, procVars, otherVars>>

RECURSIVE SendsRaise(_, _, _)
\* The sends of the handlers in q, all to one connection that has closed,
\* raise one after the other.
SendsRaise(hs, qs, q) ==
  IF q = <<>> THEN [hs |-> hs, qs |-> qs]
  ELSE LET h == Head(q)
           r == IF Head(hs[h].msgs) = "kernel_restarted"
                THEN NextSend(hs, qs, h, hs[h].pos + 1, nbCells)
                ELSE [hs |-> [hs EXCEPT ![h] = [@ EXCEPT !.pc = "failed"]],
                      qs |-> qs]
       IN SendsRaise(r.hs, r.qs, Tail(q))

\* A client's connection closes; the server has not read the disconnect yet,
\* so the client stays in clients.
PeerClose(c) ==
  /\ c \in LiveClients \ peerClosed
  /\ peerClosed' = peerClosed \cup {c}
  /\ LET r == SendsRaise(handlers, [sendq EXCEPT ![c] = <<>>], sendq[c])
     IN /\ handlers' = r.hs
        /\ sendq' = r.qs
  /\ UNCHANGED <<nbCells, nextCell, clients, inbox, nHandlers, nConnects>>
  /\ UNCHANGED <<zmqVars, procVars, otherVars>>

\* A queue without the handlers of a set.
RECURSIVE Without(_, _)
Without(q, hset) ==
  IF q = <<>> THEN <<>>
  ELSE (IF Head(q) \in hset THEN <<>> ELSE <<Head(q)>>) \o Without(Tail(q), hset)

\* handle_message_loop on WebSocketDisconnect: the client is deleted from
\* clients and the handler tasks of its messages are cancelled.
ClientGone(c) ==
  /\ c \in peerClosed
  /\ peerClosed' = peerClosed \ {c}
  /\ clients' = [i \in DOMAIN clients |-> IF clients[i] = c THEN 0 ELSE clients[i]]
  /\ LET mine == {h \in DOMAIN handlers :
                    handlers[h].owner = c /\ handlers[h].pc = "sending"}
     IN /\ handlers' = [h \in DOMAIN handlers |->
                          IF h \in mine
                          THEN [handlers[h] EXCEPT !.pc = "cancelled"]
                          ELSE handlers[h]]
        /\ sendq' = [d \in DOMAIN sendq |-> Without(sendq[d], mine)]
  /\ UNCHANGED <<nbCells, nextCell, inbox, nHandlers, nConnects>>
  /\ UNCHANGED <<zmqVars, procVars, otherVars>>

BroadcastNext ==
  \/ Connect
  \/ \E c \in 1..MaxClient :
       \E m \in EditInputs(nbCells) :
         \E saveOk \in BOOLEAN : HandleEdit(c, m, saveOk)
  \/ \E c \in 1..MaxClient : SendDone(c)
  \/ \E c \in 1..MaxClient : PeerClose(c)
  \/ \E c \in 1..MaxClient : ClientGone(c)

BroadcastSpec == Init /\ [][BroadcastNext]_vars

\* ------------------------------------------------------- notebook files
\* A string is the sequence of its lines (the string split at "\n"), so the
\* empty string is <<"">> and a + "\n" + b is the lines of a followed by the
\* lines of b.  A dict is a function on its keys.
Paths == {"nb.ipynb", "nb.py"}

\* The line of three double quotes, and the lines re.split takes as cell
\* markers (^# %%.*$ and ^# <codecell>.*$).
Quotes == "\"\"\""
MarkerLines == {"# %%", "# %% step", "# <codecell>"}

\* dict.get(key, default)
Get(data, key, default) == IF key \in DOMAIN data THEN data[key] ELSE default

\* Cell.__init__
Cell(cell_type, source, cell_metadata) ==
  [cell_type |-> cell_type, source |-> source, metadata |-> cell_metadata,
   outputs |-> <<>>, execution_count |-> 0]

\* Cell.to_dict: the five keys and no other.
to_dict(cell) ==
  [cell_type |-> cell.cell_type, source |-> cell.source,
   metadata |-> cell.metadata, outputs |-> cell.outputs,
   execution_count |-> cell.execution_count]

\* Cell.from_dict: the five keys are read, with their defaults.
from_dict(data) ==
  [Cell(Get(data, "cell_type", "code"), Get(data, "source", <<"">>),
        Get(data, "metadata", "{}"))
     EXCEPT !.outputs = Get(data, "outputs", <<>>),
            !.execution_count = Get(data, "execution_count", 0)]

\* json.dump writes the document piece by piece, in the order of its keys:
\* the cells first, then the other keys.  json.load reads a text back when it
\* is whole, and raises on a text that stops before its end.
json_dump(doc) ==
  [i \in 1..Len(doc.cells) |-> <<"cell", doc.cells[i]>>]
    \o << <<"end", [k \in DOMAIN doc \ {"cells"} |-> doc[k]]>> >>

Whole(text) == Len(text) > 0 /\ text[Len(text)][1] = "end"

json_load(text) ==
  ("cells" :> [i \in 1..(Len(text) - 1) |-> text[i][2]]) @@ text[Len(text)][2]

\* _save_ipynb's nb_data
nb_data(cs, md) ==
  [cells |-> [i \in 1..Len(cs) |-> to_dict(cs[i])], metadata |-> md,
   nbformat |-> 4, nbformat_minor |-> 4]

\* _load_ipynb: the cells of the document, and its metadata when it has one.
load_ipynb_cells(doc) ==
  LET ds == Get(doc, "cells", <<>>) IN [i \in 1..Len(ds) |-> from_dict(ds[i])]

\* _save_py: the parts joined with "\n"; "\n# %%\n" before every cell but
\* the first, a markdown cell between two lines of quotes.
CellText(cell) ==
  IF cell.cell_type = "markdown"
  THEN <<Quotes>> \o cell.source \o <<Quotes>>
  ELSE cell.source

RECURSIVE PartsFrom(_, _)
PartsFrom(cs, i) ==
  IF i > Len(cs) THEN <<>>
  ELSE (IF i > 1 THEN <<"", "# %%", "">> ELSE <<>>)
         \o CellText(cs[i]) \o PartsFrom(cs, i + 1)

save_py_content(cs) == IF cs = <<>> THEN <<"">> ELSE PartsFrom(cs, 1)

\* str.strip() on lines that have no blank at their ends: the empty lines at
\* both ends go.
RECURSIVE lstrip(_)
lstrip(s) == IF s # <<>> /\ Head(s) = "" THEN lstrip(Tail(s)) ELSE s

RECURSIVE rstrip(_)
rstrip(s) ==
  IF s # <<>> /\ s[Len(s)] = "" THEN rstrip(SubSeq(s, 1, Len(s) - 1)) ELSE s

strip(s) == LET t == rstrip(lstrip(s)) IN IF t = <<>> THEN <<"">> ELSE t

\* re.split(cell_pattern, content, flags=re.MULTILINE): the text between the
\* marker lines; the line break before a marker and the one after it stay
\* with the parts.
RECURSIVE SplitAt(_, _)
SplitAt(lines, part) ==
  IF lines = <<>> THEN <<part>>
  ELSE IF Head(lines) \in MarkerLines
       THEN <<part \o <<"">>>> \o SplitAt(Tail(lines), <<"">>)
       ELSE SplitAt(Tail(lines), part \o <<Head(lines)>>)

re_split(content) == SplitAt(content, <<>>)

\* part[3:-3] of a part that starts and ends with the quotes.
Unquoted(part) ==
  IF Len(part) = 1 THEN <<"">>
  ELSE <<"">> \o SubSeq(part, 2, Len(part) - 1) \o <<"">>

\* _load_py's loop body: the cell of one part, none for an empty part.
PartCells(part0) ==
  LET part == strip(part0)
      quoted == Head(part) = Quotes /\ part[Len(part)] = Quotes
  IN IF part = <<"">> THEN <<>>
     ELSE IF Head(part) = "# markdown" \/ quoted
          THEN << Cell("markdown",
                       IF quoted THEN strip(Unquoted(part)) ELSE part, "{}") >>
          ELSE << Cell("code", part, "{}") >>

RECURSIVE CellsOfParts(_)
CellsOfParts(parts) ==
  IF parts = <<>> THEN <<>>
  ELSE PartCells(Head(parts)) \o CellsOfParts(Tail(parts))

load_py_cells(content) ==
  LET found == CellsOfParts(re_split(content))
  IN IF found # <<>> THEN found
     ELSE IF strip(content) # <<"">>
          THEN << Cell("code", strip(content), "{}") >>
          ELSE << Cell("code", <<"">>, "{}") >>

\* What save_file writes to a path, in the pieces that reach the file: the
\* pieces of json.dump, and for a .py file the one string of f.write (no
\* piece when the string is empty).
SaveText(path, cs, md) ==
  IF path = "nb.ipynb" THEN json_dump(nb_data(cs, md))
  ELSE IF save_py_content(cs) = <<"">> THEN <<>> ELSE <<save_py_content(cs)>>

\* f.read() of a .py file
ReadPy(f) == IF f.text = <<>> THEN <<"">> ELSE f.text[1]

\* What load_file makes of a file.
Loadable(path, f) ==
  /\ f.exists
  /\ path = "nb.ipynb" => Whole(f.text)

LoadedCells(path, f) ==
  IF path = "nb.ipynb" THEN load_ipynb_cells(json_load(f.text))
  ELSE load_py_cells(ReadPy(f))

LoadedMetadata(path, f, md) ==
  IF path = "nb.ipynb" THEN Get(json_load(f.text), "metadata", md) ELSE md

LoadedDocument(path, f) ==
  IF path = "nb.ipynb" THEN [valid |-> TRUE, doc |-> json_load(f.text)]
  ELSE NoDocument

\* The .ipynb files another program leaves at nb.ipynb: a run code cell of
\* a 4.5 notebook, a markdown and an empty code cell with a notebook-level
\* key of the writer's own, and a 4.4 notebook of one cell never run.
ExternalDocs ==
  { [cells |-> << [cell_type |-> "code", source |-> <<"x">>,
                   metadata |-> "{}", outputs |-> <<"out">>,
                   execution_count |-> 1, id |-> "a1"] >>,
     metadata |-> "python3", nbformat |-> 4, nbformat_minor |-> 5],
    [cells |-> << [cell_type |-> "markdown", source |-> <<"t">>,
                   metadata |-> "{}", id |-> "b1"],
                  [cell_type |-> "code", source |-> <<"">>,
                   metadata |-> "{}", outputs |-> <<>>,
                   execution_count |-> 0, id |-> "b2"] >>,
     metadata |-> "python3", nbformat |-> 4, nbformat_minor |-> 5,
     widgets |-> "w"],
    [cells |-> << [cell_type |-> "code", source |-> <<"x">>,
                   metadata |-> "{}", outputs |-> <<>>,
                   execution_count |-> 0] >>,
     metadata |-> "python3", nbformat |-> 4, nbformat_minor |-> 4] }

\* The locals of a save_file call that is over.
SaveOver ==
  /\ save_pc' = "idle"
  /\ save_path' = ""
  /\ save_text' = <<>>
  /\ save_prev' = NoFile

\* Another program writes nb.ipynb.
ExternalWrite(doc) ==
  /\ save_pc # "open"
  /\ disk' = [disk EXCEPT !["nb.ipynb"] = [exists |-> TRUE, text |-> json_dump(doc)]]
  /\ last_save' = IF last_save.path = "nb.ipynb" THEN NoSave ELSE last_save
  /\ SaveOver
  /\ UNCHANGED <<file_path, handler_cells, metadata, roundtrip, original>>
  /\ UNCHANGED <<zmqVars, procVars, broadcastVars, monitorVars, extraVars>>

\* NotebookHandler(path): the file is loaded when there is one; a file that
\* does not load raises out of the constructor and no handler is made.
NotebookHandlerInit(path) ==
  /\ save_pc # "open"
  /\ disk[path].exists => Loadable(path, disk[path])
  /\ file_path' = path
  /\ IF disk[path].exists
     THEN /\ handler_cells' = LoadedCells(path, disk[path])
          /\ metadata' = LoadedMetadata(path, disk[path], "python3")
          /\ original' = LoadedDocument(path, disk[path])
          /\ roundtrip' = (last_save.valid /\ last_save.path = path)
     ELSE /\ handler_cells' = <<>>
          /\ metadata' = "python3"
          /\ original' = NoDocument
          /\ roundtrip' = FALSE
  /\ SaveOver
  /\ UNCHANGED <<disk, last_save>>
  /\ UNCHANGED <<zmqVars, procVars, broadcastVars, monitorVars, extraVars>>

\* load_file()
LoadFile ==
  /\ save_pc # "open"
  /\ Loadable(file_path, disk[file_path])
  /\ handler_cells' = LoadedCells(file_path, disk[file_path])
  /\ metadata' = LoadedMetadata(file_path, disk[file_path], metadata)
  /\ original' = LoadedDocument(file_path, disk[file_path])
  /\ roundtrip' = (last_save.valid /\ last_save.path = file_path)
  /\ SaveOver
  /\ UNCHANGED <<file_path, disk, last_save>>
  /\ UNCHANGED <<zmqVars, procVars, broadcastVars, monitorVars, extraVars>>

\* save_file(path) up to open(path, 'w'), which leaves an empty file.
SaveOpen(path) ==
  /\ save_pc # "open"
  /\ save_pc' = "open"
  /\ save_path' = path
  /\ save_text' = SaveText(path, handler_cells, metadata)
  /\ save_prev' = disk[path]
  /\ disk' = [disk EXCEPT ![path] = [exists |-> TRUE, text |-> <<>>]]
  /\ last_save' = NoSave
  /\ roundtrip' = FALSE
  /\ UNCHANGED <<file_path, handler_cells, metadata, original>>
  /\ UNCHANGED <<zmqVars, procVars, broadcastVars, monitorVars, extraVars>>

\* One more piece of the text reaches the file.
SaveWrite ==
  /\ save_pc = "open"
  /\ Len(disk[save_path].text) < Len(save_text)
  /\ disk' = [disk EXCEPT ![save_path].text =
                Append(@, save_text[Len(@) + 1])]
  /\ UNCHANGED <<file_path, handler_cells, metadata, save_pc, save_path,
                 save_text, save_prev, last_save, roundtrip, original>>
  /\ UNCHANGED <<zmqVars, procVars, broadcastVars, monitorVars, extraVars>>

\* The text is written and the file is closed: save_file returns.
SaveClose ==
  /\ save_pc = "open"
  /\ disk[save_path].text = save_text
  /\ SaveOver
  /\ last_save' = [valid |-> TRUE, path |-> save_path, cells |-> handler_cells]
  /\ UNCHANGED <<file_path, handler_cells, metadata, disk, roundtrip, original>>
  /\ UNCHANGED <<zmqVars, procVars, broadcastVars, monitorVars, extraVars>>

\* The save stops between the open and the end of the writes: a write
\* raises (a full disk, a value json cannot encode) or the process is killed.
SaveFail ==
  /\ save_pc = "open"
  /\ disk[save_path].text # save_text
  /\ save_pc' = "failed"
  /\ UNCHANGED <<file_path, handler_cells, metadata, disk, save_path,
                 save_text, save_prev, last_save, roundtrip, original>>
  /\ UNCHANGED <<zmqVars, procVars, broadcastVars, monitorVars, extraVars>>

FileNext ==
  \/ \E doc \in ExternalDocs : ExternalWrite(doc)
  \/ \E path \in Paths : NotebookHandlerInit(path)
  \/ LoadFile
  \/ \E path \in Paths : SaveOpen(path)
  \/ SaveWrite
  \/ SaveClose
  \/ SaveFail

FileSpec == Init /\ [][FileNext]_vars

\* ------------------------------------------------------------ PodMonitor
\* The providers a monitor is made for, and the statuses and SSH endpoints
\* (present or not) get_pod returns.
ProviderNames == {"runpod", "modal"}
RawStatuses == {"running", "exited", "paused"}

\* _normalize_status: status_map, and the status in upper case when the map
\* does not have it.
status_map ==
  [running |-> "ACTIVE", active |-> "ACTIVE", ready |-> "ACTIVE",
   starting |-> "STARTING", pending |-> "PENDING", stopped |-> "STOPPED",
   terminated |-> "TERMINATED", error |-> "ERROR", exited |-> "TERMINATED",
   loading |-> "STARTING", booting |-> "STARTING"]

Upper == [paused |-> "PAUSED"]

normalize_status(status) ==
  IF status \in DOMAIN status_map THEN status_map[status] ELSE Upper[status]

\* The two tests under which _monitor_loop breaks.
LoopBreaks(status, ssh) ==
  \/ status \in {"ERROR", "TERMINATED"}
  \/ status = "ACTIVE" /\ (ssh \/ provider_name = "modal")

\* A task that has started and has not ended.
Suspended(t) == loops[t].pc \in {"poll", "emit", "sleep"}

\* PodMonitor(provider_service=provider, ...)
PodMonitorInit(name) ==
  /\ provider_name = ""
  /\ provider_name' = name
  /\ UNCHANGED <<monitoring_tasks, loops, nTasks>>
  /\ UNCHANGED <<zmqVars, procVars, broadcastVars, fileVars, extraVars>>

\* start_monitoring(pod_id): nothing when the pod id has a key, else a task
\* is created and kept under the key.
StartMonitoring(pod_id) ==
  /\ provider_name # ""
  /\ IF monitoring_tasks[pod_id] # 0
     THEN UNCHANGED <<monitoring_tasks, loops, nTasks>>
     ELSE /\ nTasks < MaxTask
          /\ nTasks' = nTasks + 1
          /\ loops' = [loops EXCEPT ![nTasks + 1] =
                         [NoLoop EXCEPT !.pod = pod_id, !.pc = "poll"]]
          /\ monitoring_tasks' = [monitoring_tasks EXCEPT ![pod_id] = nTasks + 1]
  /\ UNCHANGED provider_name
  /\ UNCHANGED <<zmqVars, procVars, broadcastVars, fileVars, extraVars>>

\* await self.provider.get_pod(pod_id) returns a pod: the status is
\* normalized and update_callback is called.
Poll(t, status, ssh) ==
  /\ loops[t].pc = "poll"
  /\ ~loops[t].cancel
  /\ loops' = [loops EXCEPT ![t] = [@ EXCEPT !.pc = "emit", !.ok = TRUE,
                 !.sent = FALSE, !.status = normalize_status(status),
                 !.ssh = ssh]]
  /\ UNCHANGED <<provider_name, monitoring_tasks, nTasks>>
  /\ UNCHANGED <<zmqVars, procVars, broadcastVars, fileVars, extraVars>>

\* get_pod raises: except Exception, and the sleep.
PollFails(t) ==
  /\ loops[t].pc = "poll"
  /\ ~loops[t].cancel
  /\ loops' = [loops EXCEPT ![t] = [@ EXCEPT !.pc = "sleep", !.ok = FALSE,
                 !.sent = FALSE, !.status = "", !.ssh = FALSE]]
  /\ UNCHANGED <<provider_name, monitoring_tasks, nTasks>>
  /\ UNCHANGED <<zmqVars, procVars, broadcastVars, fileVars, extraVars>>

\* The finally of _monitor_loop: monitoring_tasks.pop(pod_id, None).
Popped(pod_id) == [monitoring_tasks EXCEPT ![pod_id] = 0]

\* await self.update_callback(...) ends.  It raises when the clients change
\* while broadcast_pod_update goes through them (the for of server.py 458
\* is outside the try): except Exception, and the sleep.  Else the update is
\* out, and the loop breaks or sleeps.
Emit(t, raises) ==
  /\ loops[t].pc = "emit"
  /\ ~loops[t].cancel
  /\ IF raises
     THEN /\ loops' = [loops EXCEPT ![t].pc = "sleep"]
          /\ UNCHANGED monitoring_tasks
     ELSE IF LoopBreaks(loops[t].status, loops[t].ssh)
          THEN /\ loops' = [loops EXCEPT ![t] = [@ EXCEPT !.pc = "done", !.sent = TRUE]]
               /\ monitoring_tasks' = Popped(loops[t].pod)
          ELSE /\ loops' = [loops EXCEPT ![t] = [@ EXCEPT !.pc = "sleep", !.sent = TRUE]]
               /\ UNCHANGED monitoring_tasks
  /\ UNCHANGED <<provider_name, nTasks>>
  /\ UNCHANGED <<zmqVars, procVars, broadcastVars, fileVars, extraVars>>

\* asyncio.sleep(POLL_INTERVAL_SECONDS) ends and the loop calls get_pod.
Wake(t) ==
  /\ loops[t].pc = "sleep"
  /\ ~loops[t].cancel
  /\ loops' = [loops EXCEPT ![t] = [NoLoop EXCEPT !.pod = loops[t].pod, !.pc = "poll"]]
  /\ UNCHANGED <<provider_name, monitoring_tasks, nTasks>>
  /\ UNCHANGED <<zmqVars, procVars, broadcastVars, fileVars, extraVars>>

\* stop_monitoring(pod_id) up to its await: the key is popped and the task,
\* when it has not ended, is cancelled.
StopMonitoring(pod_id) ==
  /\ provider_name # ""
  /\ monitoring_tasks' = Popped(pod_id)
  /\ loops' = [t \in 1..MaxTask |->
                 IF t = monitoring_tasks[pod_id] /\ Suspended(t)
                 THEN [loops[t] EXCEPT !.cancel = TRUE] ELSE loops[t]]
  /\ UNCHANGED <<provider_name, nTasks>>
  /\ UNCHANGED <<zmqVars, procVars, broadcastVars, fileVars, extraVars>>

\* stop_all(): every key is popped and its task cancelled.
StopAll ==
  /\ provider_name # ""
  /\ monitoring_tasks' = [p \in 1..MaxPod |-> 0]
  /\ loops' = [t \in 1..MaxTask |->
                 IF (\E p \in 1..MaxPod : monitoring_tasks[p] = t) /\ Suspended(t)
                 THEN [loops[t] EXCEPT !.cancel = TRUE] ELSE loops[t]]
  /\ UNCHANGED <<provider_name, nTasks>>
  /\ UNCHANGED <<zmqVars, procVars, broadcastVars, fileVars, extraVars>>

\* The cancelled task runs again: CancelledError at its await, which
\* except Exception does not catch, and the finally.
Cancelled(t) ==
  /\ Suspended(t)
  /\ loops[t].cancel
  /\ loops' = [loops EXCEPT ![t] = [NoLoop EXCEPT !.pc = "cancelled"]]
  /\ monitoring_tasks' = Popped(loops[t].pod)
  /\ UNCHANGED <<provider_name, nTasks>>
  /\ UNCHANGED <<zmqVars, procVars, broadcastVars, fileVars, extraVars>>

MonitorNext ==
  \/ \E name \in ProviderNames : PodMonitorInit(name)
  \/ \E pod_id \in 1..MaxPod : StartMonitoring(pod_id)
  \/ \E t \in 1..MaxTask, status \in RawStatuses, ssh \in BOOLEAN : Poll(t, status, ssh)
  \/ \E t \in 1..MaxTask : PollFails(t)
  \/ \E t \in 1..MaxTask, raises \in BOOLEAN : Emit(t, raises)
  \/ \E t \in 1..MaxTask : Wake(t)
  \/ \E pod_id \in 1..MaxPod : StopMonitoring(pod_id)
  \/ StopAll
  \/ \E t \in 1..MaxTask : Cancelled(t)

MonitorSpec == Init /\ [][MonitorNext]_vars

\* ------------------------------------- the Python branch of a cell
\* Text is a sequence of characters; a line of code is a sequence of tokens.
MaxWrite == 3

\* What a cell writes in one call of write().
Texts == {<<>>, <<"a">>, <<"a", "\n">>, <<"\n", "b">>, <<"a", "\r">>}

\* The last lines of the cells run: the text, whether it parses as an
\* expression, how often evaluating (or executing) it calls its function, and
\* the repr of its value ("" for None).
LastLines ==
  { [text |-> <<"f", "(", ")">>, expr |-> TRUE, calls |-> 1, value |-> ""],
    [text |-> <<"g", "(", ")">>, expr |-> TRUE, calls |-> 1, value |-> "3"],
    [text |-> <<"y">>, expr |-> TRUE, calls |-> 0, value |-> "7"],
    [text |-> <<"y", " ", "==", " ", "1">>, expr |-> TRUE, calls |-> 0,
     value |-> "False"],
    [text |-> <<"y", " ", "=", " ", "f", "(", ")">>, expr |-> FALSE,
     calls |-> 1, value |-> ""],
    [text |-> <<"y", " ", "=", " ", "z", " ", "==", " ", "1">>,
     expr |-> FALSE, calls |-> 0, value |-> ""],
    [text |-> <<"import", " ", "m">>, expr |-> FALSE, calls |-> 0,
     value |-> ""] }

Impls == {"worker", "executor", "next_executor"}

statement_keywords ==
  {"import", "from", "def", "class", "if", "elif", "else", "for", "while",
   "try", "except", "finally", "with", "assert", "del", "global", "nonlocal",
   "pass", "break", "continue", "return", "raise", "yield"}

\* `tok in line`.
Has(line, toks) == \E i \in 1..Len(line) : line[i] \in toks

\* `'=' in line`: every token that holds the character.
HasEquals(line) == Has(line, {"=", "==", "!=", "<=", ">=", "=<", "=>"})

\* worker_main's is_statement for a last line that is neither empty nor a
\* comment: an assignment, a statement keyword, or parentheses.
is_statement(line) ==
  \/ HasEquals(line) /\ ~Has(line, {"==", "!=", "<=", ">=", "=<", "=>"})
  \/ Head(line) \in statement_keywords
  \/ Has(line, {"("}) /\ Has(line, {")"})

\* _is_statement of AsyncCellExecutor and of NextCodeExecutor (the same
\* text): an assignment, or a first word (line.split()[0]) that is a keyword.
IsStatementLine(line) ==
  \/ line = <<>>
  \/ HasEquals(line) /\ ~Has(line, {"==", "!=", "<=", ">="})
  \/ /\ Head(line) \in statement_keywords
     /\ Len(line) = 1 \/ line[2] = " "

\* eval(last, g, l): SyntaxError for what is no expression, else the calls
\* are made and the value comes back.
Eval(line) ==
  IF line.expr
  THEN [raised |-> FALSE, calls |-> line.calls, value |-> line.value]
  ELSE [raised |-> TRUE, calls |-> 0, value |-> ""]

\* text.split('\n').
RECURSIVE SplitLines(_)
SplitLines(text) ==
  IF \E i \in 1..Len(text) : text[i] = "\n"
  THEN LET i == CHOOSE k \in 1..Len(text) :
                  /\ text[k] = "\n"
                  /\ \A j \in 1..(k - 1) : text[j] # "\n"
       IN <<SubSeq(text, 1, i - 1)>> \o SplitLines(SubSeq(text, i + 1, Len(text)))
  ELSE <<text>>

\* ''.join(buf).
RECURSIVE Join(_)
Join(buf) == IF buf = <<>> THEN <<>> ELSE Head(buf) \o Join(Tail(buf))

\* text.split('\r')[-1].
RECURSIVE AfterLastCR(_)
AfterLastCR(text) ==
  IF \E i \in 1..Len(text) : text[i] = "\r"
  THEN AfterLastCR(Tail(text))
  ELSE text

StreamEv(type, name, text) == [type |-> type, name |-> name, text |-> text]

\* The for loop of _StreamForwarder._write: every line but the last is published
\* with what the buffer held; the last one is kept in the buffer.
RECURSIVE Feed(_, _, _, _)
Feed(lines, buf, out, name) ==
  IF Len(lines) = 1
  THEN [buf |-> Append(buf, lines[1]), out |-> out]
  ELSE Feed(Tail(lines), <<>>,
            Append(out, StreamEv("stream", name,
                                 Join(Append(buf, Head(lines))) \o <<"\n">>)),
            name)

\* Whether _write treats the text as a carriage-return update.
IsUpdate(text) == Has(text, {"\r"}) /\ ~Has(text, {"\n"})

\* _StreamForwarder._write on a forwarder f = [out_buf, err_buf, pub].
sf_write(f, name, text) ==
  IF text = <<>> THEN f
  ELSE IF IsUpdate(text)
  THEN [f EXCEPT !.pub = Append(@, StreamEv("stream_update", name,
                                            AfterLastCR(text)))]
  ELSE LET r == Feed(SplitLines(text),
                     IF name = "stdout" THEN f.out_buf ELSE f.err_buf,
                     f.pub, name)
       IN IF name = "stdout"
          THEN [f EXCEPT !.out_buf = r.buf, !.pub = r.out]
          ELSE [f EXCEPT !.err_buf = r.buf, !.pub = r.out]

\* _StreamForwarder.flush.
sf_flush(f) ==
  LET o == IF f.out_buf # <<>>
           THEN <<StreamEv("stream", "stdout", Join(f.out_buf))>> ELSE <<>>
      e == IF f.err_buf # <<>>
           THEN <<StreamEv("stream", "stderr", Join(f.err_buf))>> ELSE <<>>
  IN [out_buf |-> <<>>, err_buf |-> <<>>, pub |-> f.pub \o o \o e]

\* The forwarder of the running cell.
Forwarder == [out_buf |-> out_buf, err_buf |-> err_buf, pub |-> sf_pub]

\* The text the write adds to what the stream was given.
Given(name, text) ==
  IF IsUpdate(text) THEN written
  ELSE [written EXCEPT ![name] = @ \o text]

\* The worker's complaint about a last line whose eval raised.
FailedToEval == <<"w", "\n">>

\* execute_cell of one of the three Python branches begins: the code is
\* compiled and exec() starts.
PyBegin(i, line) ==
  /\ py_pc \in {"idle", "done"}
  /\ py_pc' = "running"
  /\ impl' = i
  /\ last' = line
  /\ calls' = 0
  /\ nWrite' = 0
  /\ out_buf' = <<>>
  /\ err_buf' = <<>>
  /\ sf_pub' = <<StreamEv("execution_start", "", <<>>)>>
  /\ written' = [n \in {"stdout", "stderr"} |-> <<>>]
  /\ UNCHANGED notStream

\* The cell's code calls sys.stdout.write or sys.stderr.write.
PyWrite(name, text) ==
  /\ py_pc = "running"
  /\ impl = "worker"
  /\ nWrite < MaxWrite
  /\ nWrite' = nWrite + 1
  /\ LET f == sf_write(Forwarder, name, text) IN
       /\ out_buf' = f.out_buf
       /\ err_buf' = f.err_buf
       /\ sf_pub' = f.pub
  /\ written' = Given(name, text)
  /\ UNCHANGED <<py_pc, impl, last, calls>>
  /\ UNCHANGED notStream

\* The cell's code calls sys.stdout.flush() (or sys.stderr.flush()).
PyFlush ==
  /\ py_pc = "running"
  /\ impl = "worker"
  /\ nWrite < MaxWrite
  /\ nWrite' = nWrite + 1
  /\ LET f == sf_flush(Forwarder) IN
       /\ out_buf' = f.out_buf
       /\ err_buf' = f.err_buf
       /\ sf_pub' = f.pub
  /\ UNCHANGED <<written, py_pc, impl, last, calls>>
  /\ UNCHANGED notStream

\* exec() returns: the last line is evaluated unless it is taken for a
\* statement, a value that is not None is published as execute_result, and
\* execution_complete ends the cell; the forwarder's flush() is not called.  The worker reports an eval that raised
\* with print(..., file=sys.stderr, flush=True), through the forwarder; the
\* other two ignore it.
PyFinish ==
  /\ py_pc = "running"
  /\ py_pc' = "done"
  /\ LET evaluated == IF impl = "worker" THEN ~is_statement(last.text)
                      ELSE ~IsStatementLine(last.text)
         r == Eval(last)
         said == evaluated /\ r.raised /\ impl = "worker"
         f == IF said
              THEN sf_flush(sf_write(Forwarder, "stderr", FailedToEval))
              ELSE Forwarder
         res == IF evaluated /\ ~r.raised /\ r.value # ""
                THEN <<StreamEv("execute_result", "", <<r.value>>)>> ELSE <<>>
     IN /\ calls' = last.calls + (IF evaluated THEN r.calls ELSE 0)
        /\ out_buf' = f.out_buf
        /\ err_buf' = f.err_buf
        /\ sf_pub' = f.pub \o res
                       \o <<StreamEv("execution_complete", "", <<>>)>>
        /\ written' = IF said THEN Given("stderr", FailedToEval) ELSE written
  /\ UNCHANGED <<nWrite, impl, last>>
  /\ UNCHANGED notStream

PyNext ==
  \/ \E i \in Impls, line \in LastLines : PyBegin(i, line)
  \/ \E name \in {"stdout", "stderr"}, text \in Texts : PyWrite(name, text)
  \/ PyFlush
  \/ PyFinish

PySpec == Init /\ [][PyNext]_vars

\* ------------------------------------------- whole-cell shell commands
\* The commands of the cells `!cmd`, and what their processes may do.
ShellCommands == {"false", "ls nodir"}
ReturnCodes == {0, 1, 2}
StdoutTexts == {<<>>, <<"o", "\n">>}
StderrTexts == {<<>>, <<" ", "\n">>, <<"e", "\n">>}

\* `not text.strip()`.
Blank(text) == \A i \in 1..Len(text) : text[i] \in {" ", "\n", "\t"}

ShEv(type, name, text, status, error) ==
  [type |-> type, name |-> name, text |-> text, status |-> status,
   error |-> error]

\* An error_payload set whatever the command wrote to stderr.
ShellErrorAlways(command, returncode, stderr) ==
  IF returncode # 0
  THEN [ename |-> "ShellCommandError", traceback |-> command]
  ELSE NoError

\* The error of a command that has ended: ShellCommandError, with the command
\* in its traceback, for a non-zero return code and a stderr that holds
\* nothing but white space (worker.py 275-283, special_commands.py 163-175).
ShellError(command, returncode, stderr) ==
  IF returncode # 0 /\ Blank(stderr)
  THEN [ename |-> "ShellCommandError", traceback |-> command]
  ELSE NoError

\* One event for each stream the process wrote to.
StreamEvents(type, cmd) ==
  (IF cmd.stdout # <<>>
   THEN <<ShEv(type, "stdout", cmd.stdout, "", NoError)>> ELSE <<>>)
  \o (IF cmd.stderr # <<>>
      THEN <<ShEv(type, "stderr", cmd.stderr, "", NoError)>> ELSE <<>>)

\* A cell `!command` is handed to the worker's special-command branch or to
\* NextZmqExecutor.execute_cell and its AsyncSpecialCommandHandler:
\* execution_start goes out and the process is started.
ShBegin(path, command, returncode, stdout, stderr) ==
  /\ sh_pc \in {"idle", "done"}
  /\ sh_pc' = "running"
  /\ sh_path' = path
  /\ sh_cmd' = [command |-> command, returncode |-> returncode,
                stdout |-> stdout, stderr |-> stderr]
  /\ sh_events' =
       <<ShEv("execution_start", "", <<>>, "", NoError)>>
       \o (IF path = "handler"
           THEN <<ShEv("execution_start", "", <<>>, "", NoError)>> ELSE <<>>)
  /\ sh_result' = NewResult
  /\ UNCHANGED notShell

\* worker_main, special-command branch: process.communicate() returns, the
\* output is published, then the error if there is an error_payload, then
\* execution_complete.
ShWorkerRun ==
  /\ sh_pc = "running"
  /\ sh_path = "worker"
  /\ sh_pc' = "done"
  /\ LET status == IF sh_cmd.returncode # 0 THEN "error" ELSE "ok"
         error_payload == ShellError(sh_cmd.command, sh_cmd.returncode,
                                     sh_cmd.stderr)
     IN /\ sh_events' = sh_events
             \o StreamEvents("stream", sh_cmd)
             \o (IF error_payload # NoError
                 THEN <<ShEv("execution_error", "", <<>>, "", error_payload)>>
                 ELSE <<>>)
             \o <<ShEv("execution_complete", "", <<>>, status, error_payload)>>
        /\ sh_result' = [status |-> status, error |-> error_payload,
                         outputs |-> {}]
  /\ UNCHANGED <<sh_path, sh_cmd>>
  /\ UNCHANGED notShell

\* _execute_shell_command: the two _stream_output tasks have read the
\* streams to their end, sent the text and added it to result["outputs"].
ShStream ==
  /\ sh_pc = "running"
  /\ sh_path = "handler"
  /\ sh_pc' = "streamed"
  /\ sh_events' = sh_events \o StreamEvents("stream_output", sh_cmd)
  /\ sh_result' = [sh_result EXCEPT !.outputs =
       (IF sh_cmd.stdout # <<>>
        THEN {[name |-> "stdout", text |-> sh_cmd.stdout]} ELSE {})
       \cup (IF sh_cmd.stderr # <<>>
             THEN {[name |-> "stderr", text |-> sh_cmd.stderr]} ELSE {})]
  /\ UNCHANGED <<sh_path, sh_cmd>>
  /\ UNCHANGED notShell

\* The stderr text among result["outputs"] (has_stderr looks for one that is
\* not blank).
StderrOf(outputs) ==
  IF \E o \in outputs : o.name = "stderr" /\ ~Blank(o.text)
  THEN <<"e">> ELSE <<>>

\* _execute_shell_command after process.wait(): its own execution_complete
\* is sent, then the result gets its status and error.
ShWait ==
  /\ sh_pc = "streamed"
  /\ sh_pc' = "ended"
  /\ LET status == IF sh_cmd.returncode # 0 THEN "error" ELSE "ok" IN
       /\ sh_events' = Append(sh_events,
            ShEv("execution_complete", "", <<>>, status, NoError))
       /\ sh_result' = [sh_result EXCEPT
            !.status = status,
            !.error = ShellError(sh_cmd.command, sh_cmd.returncode,
                                 StderrOf(sh_result.outputs))]
  /\ UNCHANGED <<sh_path, sh_cmd>>
  /\ UNCHANGED notShell

\* NextZmqExecutor.execute_cell after execute_special_command has returned:
\* execution_complete with the result.
ShReturn ==
  /\ sh_pc = "ended"
  /\ sh_pc' = "done"
  /\ sh_events' = Append(sh_events,
       ShEv("execution_complete", "", <<>>, sh_result.status, sh_result.error))
  /\ UNCHANGED <<sh_path, sh_cmd, sh_result>>
  /\ UNCHANGED notShell

ShellNext ==
  \/ \E path \in {"worker", "handler"}, command \in ShellCommands,
        returncode \in ReturnCodes, stdout \in StdoutTexts,
        stderr \in StderrTexts :
       ShBegin(path, command, returncode, stdout, stderr)
  \/ ShWorkerRun
  \/ ShStream
  \/ ShWait
  \/ ShReturn

ShellSpec == Init /\ [][ShellNext]_vars

\* ------------------------------------------- PodKernelManager's tunnel
\* The manager's fields a connect works on, with the processes alive.
Mgr == [pod |-> mgr_pod, proc |-> ssh_tunnel_proc, alive |-> tunnels]

\* PodKernelManager.disconnect: the recorded tunnel process, if any, is
\* terminated; ssh_tunnel_proc and pod become None.  It awaits nothing.
disconnect(m) == [pod |-> 0, proc |-> 0, alive |-> m.alive \ {m.proc}]

\* _connect_to_pod_background when the connect did not go through:
\* `if pod_manager and pod_manager.pod: await pod_manager.disconnect()`.
CleanUp(m) == IF m.pod # 0 THEN disconnect(m) ELSE m

\* The manager's fields become those of m.
MgrBecomes(m) ==
  /\ mgr_pod' = m.pod
  /\ ssh_tunnel_proc' = m.proc
  /\ tunnels' = m.alive

\* POST /api/gpu/pods/{pod_id}/connect: a background task is created.
ConnectRequest(pod_id) ==
  /\ nCTasks < MaxConnTask
  /\ nCTasks' = nCTasks + 1
  /\ ctasks' = [ctasks EXCEPT ![nCTasks + 1] =
                  [pc |-> "start", pod_id |-> pod_id, result |-> ""]]
  /\ UNCHANGED <<mgr_pod, ssh_tunnel_proc, tunnels, nTunnel, nTunnelDeath>>
  /\ UNCHANGED notTunnel

\* _connect_to_pod_background up to `await provider_service.get_pod()` in
\* connect_to_pod: a pod still set is disconnected first.
ConnectStart(t) ==
  /\ ctasks[t].pc = "start"
  /\ MgrBecomes(CleanUp(Mgr))
  /\ ctasks' = [ctasks EXCEPT ![t].pc = "get_pod"]
  /\ UNCHANGED <<nTunnel, nCTasks, nTunnelDeath>>
  /\ UNCHANGED notTunnel

\* connect_to_pod from the return of get_pod to `await asyncio.sleep(2)` in
\* _create_ssh_tunnel: self.pod is set; a pod without sshConnection or a
\* failed deployment ends the connect; else the tunnel process is started
\* and recorded in ssh_tunnel_proc.
ConnectGotPod(t, ready, deployed) ==
  /\ ctasks[t].pc = "get_pod"
  /\ LET m == [Mgr EXCEPT !.pod = ctasks[t].pod_id] IN
       IF ready /\ deployed
       THEN /\ nTunnel' = nTunnel + 1
            /\ MgrBecomes([m EXCEPT !.proc = nTunnel + 1,
                                    !.alive = @ \cup {nTunnel + 1}])
            /\ ctasks' = [ctasks EXCEPT ![t].pc = "tunnel_wait"]
       ELSE /\ MgrBecomes(CleanUp(m))
            /\ ctasks' = [ctasks EXCEPT ![t].pc = "done", ![t].result = "error"]
            /\ UNCHANGED nTunnel
  /\ UNCHANGED <<nCTasks, nTunnelDeath>>
  /\ UNCHANGED notTunnel

\* _create_ssh_tunnel after its sleep, and _start_remote_worker up to its
\* sleep: no process recorded or a dead one ends the connect; so does a
\* worker that does not start, after a disconnect.
ConnectTunnelChecked(t, started) ==
  /\ ctasks[t].pc = "tunnel_wait"
  /\ IF ssh_tunnel_proc = 0 \/ ssh_tunnel_proc \notin tunnels
     THEN /\ MgrBecomes(CleanUp(Mgr))
          /\ ctasks' = [ctasks EXCEPT ![t].pc = "done", ![t].result = "error"]
     ELSE IF ~started
     THEN /\ MgrBecomes(CleanUp(disconnect(Mgr)))
          /\ ctasks' = [ctasks EXCEPT ![t].pc = "done", ![t].result = "error"]
     ELSE /\ ctasks' = [ctasks EXCEPT ![t].pc = "worker_wait"]
          /\ UNCHANGED <<mgr_pod, ssh_tunnel_proc, tunnels>>
  /\ UNCHANGED <<nTunnel, nCTasks, nTunnelDeath>>
  /\ UNCHANGED notTunnel

\* connect_to_pod returns ok: the executor is attached and
\* reconnect_zmq_sockets is called with the keywords of ConnectKeywords; a
\* keyword it does not take raises TypeError and the except branch cleans up.
ConnectWorkerReady(t) ==
  /\ ctasks[t].pc = "worker_wait"
  /\ IF ConnectKeywords \subseteq ReconnectParams
     THEN /\ ctasks' = [ctasks EXCEPT ![t].pc = "done", ![t].result = "ok"]
          /\ UNCHANGED <<mgr_pod, ssh_tunnel_proc, tunnels>>
     ELSE /\ MgrBecomes(CleanUp(Mgr))
          /\ ctasks' = [ctasks EXCEPT ![t].pc = "done", ![t].result = "error"]
  /\ UNCHANGED <<nTunnel, nCTasks, nTunnelDeath>>
  /\ UNCHANGED notTunnel

\* POST /api/gpu/pods/disconnect with a pod set.
DisconnectRequest ==
  /\ mgr_pod # 0
  /\ MgrBecomes(disconnect(Mgr))
  /\ UNCHANGED <<nTunnel, ctasks, nCTasks, nTunnelDeath>>
  /\ UNCHANGED notTunnel

\* A tunnel process ends by itself (the connection drops).
TunnelDies(p) ==
  /\ p \in tunnels
  /\ nTunnelDeath < MaxTunnelDeath
  /\ nTunnelDeath' = nTunnelDeath + 1
  /\ tunnels' = tunnels \ {p}
  /\ UNCHANGED <<mgr_pod, ssh_tunnel_proc, nTunnel, ctasks, nCTasks>>
  /\ UNCHANGED notTunnel

TunnelNext ==
  \/ \E pod_id \in 1..MaxPod : ConnectRequest(pod_id)
  \/ \E t \in 1..MaxConnTask :
       \/ ConnectStart(t)
       \/ \E ready, deployed \in BOOLEAN : ConnectGotPod(t, ready, deployed)
       \/ \E started \in BOOLEAN : ConnectTunnelChecked(t, started)
       \/ ConnectWorkerReady(t)
  \/ DisconnectRequest
  \/ \E p \in 1..MaxConnTask : TunnelDies(p)

TunnelSpec == Init /\ [][TunnelNext]_vars

\* --------------------------------- storing a result while cells move
\* _handle_execute_cell up to `await self.executor.execute_cell(...)`: an
\* index outside the notebook is refused; else the source of the cell at
\* cell_index is read and handed to the executor.  Indexes are Python's.
StoreExecBegin(c, cell_index) ==
  /\ c \in LiveClients \ peerClosed
  /\ srun.pc # "running"
  /\ nRun < MaxRun
  /\ nRun' = nRun + 1
  /\ srun' = IF 0 <= cell_index /\ cell_index < Len(nbCells)
             THEN [pc |-> "running", cell_index |-> cell_index,
                   cell |-> nbCells[cell_index + 1], count |-> nRun + 1]
             ELSE [pc |-> "invalid", cell_index |-> cell_index, cell |-> 0,
                   count |-> 0]
  /\ UNCHANGED stored
  /\ UNCHANGED broadcastVars
  /\ UNCHANGED notStore

\* The cell of the notebook s the handler's cell_index names when the
\* result is stored.
StoreTarget(s, run) == s[run.cell_index + 1]

\* _handle_execute_cell after the executor has returned:
\* notebook.cells[cell_index] gets the outputs and the execution count, then
\* execution_complete is sent.  An index past the end raises IndexError and
\* the handler task ends there.
StoreExecEnd ==
  /\ srun.pc = "running"
  /\ IF srun.cell_index < Len(nbCells)
     THEN /\ stored' = [stored EXCEPT ![StoreTarget(nbCells, srun)] = srun.count]
          /\ srun' = [srun EXCEPT !.pc = "done"]
     ELSE /\ srun' = [srun EXCEPT !.pc = "failed"]
          /\ UNCHANGED stored
  /\ UNCHANGED nRun
  /\ UNCHANGED broadcastVars
  /\ UNCHANGED notStore

\* The add_cell, delete_cell and move_cell messages.
StructuralInputs(s) == {m \in EditInputs(s) : m.kind # "reset_kernel"}

StoreNext ==
  \/ Connect
  \/ \E c \in 1..MaxClient :
       \E m \in StructuralInputs(nbCells) :
         \E saveOk \in BOOLEAN : HandleEdit(c, m, saveOk)
  \/ \E c \in 1..MaxClient : SendDone(c)
  \/ \E c \in 1..MaxClient :
       \E cell_index \in 0..(MaxEdit + 1) : StoreExecBegin(c, cell_index)
  \/ StoreExecEnd

StoreSpec == Init /\ [][StoreNext]_vars

\* ------------------------------------------------- NextProcessExecutor
\* The sources handed to NextProcessExecutor.execute_cell.
ProcSources == <<SrcBindY, SrcLoop, SrcReadY>>

PEv(type, cell, status, ename) ==
  [type |-> type, cell_index |-> cell, status |-> status, ename |-> ename]

PCmd(cell, code) == [type |-> "execute_cell", cell_index |-> cell, code |-> code]

\* execute_cell up to its pump loop: a worker is spawned if there is none
\* alive, and the command is put on the command queue.
PExecuteCell(idx) ==
  /\ nPExec < MaxProcExec
  /\ nPExec' = nPExec + 1
  /\ IF proc.alive
     THEN /\ command_queue' = Append(command_queue, PCmd(idx, ProcSources[idx]))
          /\ UNCHANGED <<proc, output_queue, pw>>
     ELSE /\ proc' = [pid |-> proc.pid + 1, alive |-> TRUE]
          /\ pw' = FreshWorker(proc.pid + 1)
          /\ command_queue' = <<PCmd(idx, ProcSources[idx])>>
          /\ output_queue' = <<>>
  /\ ptasks' = [ptasks EXCEPT ![nPExec + 1] =
                  [pc |-> "pumping", cell |-> idx, source |-> ProcSources[idx],
                   status |-> "", sent |-> {}]]
  /\ UNCHANGED <<pint, nPInt, nPReset, nDeath, ended, later>>
  /\ UNCHANGED <<zmqVars, sessionVars>>

\* The message types _forward_one sends to the websocket.
ForwardedTypes ==
  {"stream", "stream_update", "execute_result", "display_data",
   "execution_start", "execution_error"}

\* The types of the messages of q that _forward_one sends.
ForwardAll(q) ==
  {q[i].type : i \in {j \in 1..Len(q) : q[j].type \in ForwardedTypes}}

\* One turn of execute_cell's pump loop that gets a message: the
\* execution_complete of its own cell ends the call after _send_pending has
\* drained the queue; any other message goes through _forward_one.
PPump(t) ==
  /\ ptasks[t].pc = "pumping"
  /\ output_queue # <<>>
  /\ LET msg == Head(output_queue) IN
       IF msg.type = "execution_complete" /\ msg.cell_index = ptasks[t].cell
       THEN /\ ptasks' = [ptasks EXCEPT
                 ![t].pc = "returned",
                 ![t].status = msg.status,
                 ![t].sent = ptasks[t].sent
                               \cup ForwardAll(Tail(output_queue))
                               \cup {msg.type}]
            /\ output_queue' = <<>>
       ELSE /\ ptasks' = [ptasks EXCEPT
                 ![t].sent = ptasks[t].sent \cup ForwardAll(<<msg>>)]
            /\ output_queue' = Tail(output_queue)
  /\ UNCHANGED <<proc, command_queue, pw, pint, nPExec, nPInt, nPReset,
                 nDeath, ended, later>>
  /\ UNCHANGED <<zmqVars, sessionVars>>

\* The worker process takes an execute_cell command and announces the cell.
PWorkerBegin ==
  /\ pw.state = "idle"
  /\ command_queue # <<>>
  /\ LET cmd == Head(command_queue) IN
       /\ pw' = [pw EXCEPT !.state = "running", !.cell = cmd.cell_index,
                           !.code = cmd.code]
       /\ output_queue' =
            Append(output_queue, PEv("execution_start", cmd.cell_index, "", ""))
  /\ command_queue' = Tail(command_queue)
  /\ later' = IF ended.pid # 0
              THEN [pid |-> pw.pid, missing |-> ended.ns \ pw.ns]
              ELSE later
  /\ UNCHANGED <<proc, ptasks, pint, nPExec, nPInt, nPReset, nDeath, ended>>
  /\ UNCHANGED <<zmqVars, sessionVars>>

\* The events that end a cell in the worker process.
PFinishEvents(cell, code, raised) ==
  (IF raised = "" /\ ShowsResult(code)
   THEN <<PEv("execute_result", cell, "", "")>> ELSE <<>>)
  \o (IF raised # ""
      THEN <<PEv("execution_error", cell, "", raised)>> ELSE <<>>)
  \o <<PEv("execution_complete", cell,
           IF raised = "" THEN "ok" ELSE "error", raised)>>

\* The cell the worker process is running comes to its end.
PWorkerFinish ==
  /\ pw.state = "running"
  /\ LET r == RunLines(pw.code, pw.ns) IN
       /\ r.raised # "loop"
       /\ pw' = [pw EXCEPT !.state = "idle", !.ns = r.ns, !.cell = 0,
                           !.code = <<>>]
       /\ output_queue' = output_queue \o PFinishEvents(pw.cell, pw.code, r.raised)
  /\ UNCHANGED <<proc, command_queue, ptasks, pint, nPExec, nPInt, nPReset,
                 nDeath, ended, later>>
  /\ UNCHANGED <<zmqVars, sessionVars>>

\* The worker process on SIGINT: a running cell ends with KeyboardInterrupt
\* and the worker goes on; with no cell running nothing happens.
OnSigint(w) ==
  IF w.state = "running"
  THEN [w EXCEPT !.state = "idle", !.cell = 0, !.code = <<>>]
  ELSE w

\* interrupt_kernel up to the first turn of its poll loop: nothing for a dead
\* worker, else SIGINT to the worker's process group.
PInterruptKernel ==
  /\ nPInt < MaxProcInterrupt
  /\ pint = "none"
  /\ nPInt' = nPInt + 1
  /\ IF ~proc.alive
     THEN UNCHANGED <<pw, output_queue, pint, ended, later>>
     ELSE /\ pw' = OnSigint(pw)
          /\ pint' = "waiting"
          /\ IF pw.state = "running"
             THEN /\ output_queue' = output_queue
                       \o PFinishEvents(pw.cell, pw.code, "KeyboardInterrupt")
                  /\ ended' = [pid |-> pw.pid, ns |-> pw.ns]
                  /\ later' = NoLater
             ELSE UNCHANGED <<output_queue, ended, later>>
  /\ UNCHANGED <<proc, command_queue, ptasks, nPExec, nPReset, nDeath>>
  /\ UNCHANGED <<zmqVars, sessionVars>>

\* interrupt_kernel leaves its poll loop: it returns if the worker process
\* is dead; once interrupt_timeout has passed it terminates the process and
\* calls _spawn_worker().
PInterruptWait ==
  /\ pint = "waiting"
  /\ pint' = "none"
  /\ IF ~proc.alive
     THEN UNCHANGED <<proc, command_queue, output_queue, pw>>
     ELSE /\ proc' = [pid |-> proc.pid + 1, alive |-> TRUE]
          /\ pw' = FreshWorker(proc.pid + 1)
          /\ command_queue' = <<>>
          /\ output_queue' = <<>>
  /\ UNCHANGED <<ptasks, nPExec, nPInt, nPReset, nDeath, ended, later>>
  /\ UNCHANGED <<zmqVars, sessionVars>>

\* reset_kernel: terminate the process if it is alive, then _spawn_worker().
PResetKernel ==
  /\ nPReset < MaxProcReset
  /\ nPReset' = nPReset + 1
  /\ proc' = [pid |-> proc.pid + 1, alive |-> TRUE]
  /\ pw' = FreshWorker(proc.pid + 1)
  /\ command_queue' = <<>>
  /\ output_queue' = <<>>
  /\ UNCHANGED <<ptasks, pint, nPExec, nPInt, nDeath, ended, later>>
  /\ UNCHANGED <<zmqVars, sessionVars>>

\* The system kills the worker process.
PWorkerDies ==
  /\ nDeath < MaxDeath
  /\ proc.alive
  /\ nDeath' = nDeath + 1
  /\ proc' = [proc EXCEPT !.alive = FALSE]
  /\ pw' = [pw EXCEPT !.state = "dead"]
  /\ UNCHANGED <<command_queue, output_queue, ptasks, pint, nPExec, nPInt,
                 nPReset, ended, later>>
  /\ UNCHANGED <<zmqVars, sessionVars>>

ProcNext ==
  \/ \E idx \in 1..Len(ProcSources) : PExecuteCell(idx)
  \/ \E t \in 1..MaxProcExec : PPump(t)
  \/ PWorkerBegin
  \/ PWorkerFinish
  \/ PInterruptKernel
  \/ PInterruptWait
  \/ PResetKernel
  \/ PWorkerDies

ProcSpec == Init /\ [][ProcNext]_vars

\* ---------------------------------- the pump loop and its timed get
\* A turn of execute_cell's pump loop in which output_queue.get(timeout=0.05)
\* finds the queue empty and raises: the call goes on to _send_pending.
PPumpTimeout(t) ==
  /\ ptasks[t].pc = "pumping"
  /\ output_queue = <<>>
  /\ ptasks' = [ptasks EXCEPT ![t].pc = "draining"]
  /\ UNCHANGED <<proc, command_queue, output_queue, pw, pint, nPExec, nPInt,
                 nPReset, nDeath, ended, later>>
  /\ UNCHANGED <<zmqVars, sessionVars>>

\* _send_pending(websocket) after the timed get has raised: every message on
\* the queue is taken off and handed to _forward_one, which sends the types
\* it knows; then the pump loop goes round again.
PSendPending(t) ==
  /\ ptasks[t].pc = "draining"
  /\ ptasks' = [ptasks EXCEPT
        ![t].pc = "pumping",
        ![t].sent = ptasks[t].sent \cup ForwardAll(output_queue)]
  /\ output_queue' = <<>>
  /\ UNCHANGED <<proc, command_queue, pw, pint, nPExec, nPInt, nPReset,
                 nDeath, ended, later>>
  /\ UNCHANGED <<zmqVars, sessionVars>>

\* No call of execute_cell is in its pump loop.
NoCallPumping ==
  \A t \in 1..MaxProcExec : ptasks[t].pc \notin {"pumping", "draining"}

\* One call of execute_cell at a time, a worker that is neither interrupted
\* nor reset nor killed, and every turn the pump loop can take.
PumpNext ==
  \/ \E idx \in 1..Len(ProcSources) : NoCallPumping /\ PExecuteCell(idx)
  \/ \E t \in 1..MaxProcExec : PPump(t)
  \/ \E t \in 1..MaxProcExec : PPumpTimeout(t)
  \/ \E t \in 1..MaxProcExec : PSendPending(t)
  \/ PWorkerBegin
  \/ PWorkerFinish

PumpSpec == Init /\ [][PumpNext]_vars

\* ------------------------------------------ the provider registry
\* _PROVIDER_REGISTRY after the provider modules are imported: per provider
\* name, the API_KEY_ENV_NAME of its class.
PROVIDER_REGISTRY ==
  [n \in {"runpod", "vastai"} |->
     IF n = "runpod" THEN "RUNPOD_API_KEY" ELSE "VASTAI_API_KEY"]

\* The provider names a caller passes: two registered ones and one that is
\* not.
RegistryNames == {"runpod", "vastai", "modal"}

\* The API keys a caller passes: empty, blank, and two keys.
ApiKeys == {"", " ", "k1", "k2"}

\* api_key.strip() is empty.
StripsToEmpty(api_key) == api_key \in {"", " "}

\* A string that is truthy: not None and not empty.
Truthy(value) == value \notin {NoKey, ""}

\* load_api_key: the environment variable when it is set and not empty,
\* else the key of the config file, else None.
load_api_key(cfg, key_name) ==
  IF Truthy(environ[key_name]) THEN environ[key_name] ELSE cfg[key_name]

\* The server process starts with the environment it is given.
RegistryStart(env) ==
  /\ reg_pc = "new"
  /\ reg_pc' = "up"
  /\ environ' = [k \in ConfigKeys |->
                   IF k \in DOMAIN env THEN env[k] ELSE NoKey]
  /\ UNCHANGED <<config, PROVIDER_INSTANCES, last_call>>
  /\ UNCHANGED notRegistry

\* The config after set_active_provider(name) of the factory, and
\* what it returns: no change and False for a provider that is not
\* registered or has no API key.
set_active(cfg, name) ==
  IF name \notin DOMAIN PROVIDER_REGISTRY
  THEN [config |-> cfg, result |-> "False"]
  ELSE IF ~Truthy(load_api_key(cfg, PROVIDER_REGISTRY[name]))
       THEN [config |-> cfg, result |-> "False"]
       ELSE [config |-> [cfg EXCEPT !["active_provider"] = name],
             result |-> "True"]

\* provider_factory.set_active_provider(name).
set_active_provider(name) ==
  /\ reg_pc = "up"
  /\ config' = set_active(config, name).config
  /\ last_call' = <<"set_active_provider",
                    set_active(config, name).result>>
  /\ UNCHANGED <<reg_pc, environ, PROVIDER_INSTANCES>>
  /\ UNCHANGED notRegistry

\* config_util.set_active_provider(name): the name is written as
\* given.
set_active_provider_name(name) ==
  /\ reg_pc = "up"
  /\ config' = [config EXCEPT !["active_provider"] = name]
  /\ last_call' = <<"config_util.set_active_provider", "None">>
  /\ UNCHANGED <<reg_pc, environ, PROVIDER_INSTANCES>>
  /\ UNCHANGED notRegistry

\* configure_provider(name, api_key, make_active): False for a
\* provider that is not registered; save_api_key raises ValueError for a
\* blank key; else the key is saved, the cached instance is made anew with
\* the key load_api_key gives, and the provider is made active when asked.
configure_provider(name, api_key, make_active) ==
  /\ reg_pc = "up"
  /\ IF name \notin DOMAIN PROVIDER_REGISTRY
     THEN /\ last_call' = <<"configure_provider", "False">>
          /\ UNCHANGED <<config, PROVIDER_INSTANCES>>
     ELSE IF StripsToEmpty(api_key)
          THEN /\ last_call' = <<"configure_provider", "ValueError">>
               /\ UNCHANGED <<config, PROVIDER_INSTANCES>>
          ELSE LET key_name == PROVIDER_REGISTRY[name]
                   saved == [config EXCEPT ![key_name] = api_key]
               IN  /\ PROVIDER_INSTANCES' =
                        [PROVIDER_INSTANCES EXCEPT
                           ![name] = load_api_key(saved, key_name)]
                   /\ config' = IF make_active
                                THEN set_active(saved, name).config
                                ELSE saved
                   /\ last_call' = <<"configure_provider", "True">>
  /\ UNCHANGED <<reg_pc, environ>>
  /\ UNCHANGED notRegistry

\* delete_api_key(key_name): the key is removed from the config when it is
\* there; nothing else of the config is touched.
delete_api_key(key_name) ==
  /\ reg_pc = "up"
  /\ IF config[key_name] # NoKey
     THEN /\ config' = [config EXCEPT ![key_name] = NoKey]
          /\ last_call' = <<"delete_api_key", "True">>
     ELSE /\ last_call' = <<"delete_api_key", "False">>
          /\ UNCHANGED config
  /\ UNCHANGED <<reg_pc, environ, PROVIDER_INSTANCES>>
  /\ UNCHANGED notRegistry

\* get_provider(name): the cached instance, or a new one made with
\* the key load_api_key gives.
get_provider(name) ==
  /\ reg_pc = "up"
  /\ name \in DOMAIN PROVIDER_REGISTRY
  /\ PROVIDER_INSTANCES[name] = "no instance"
  /\ PROVIDER_INSTANCES' =
       [PROVIDER_INSTANCES EXCEPT
          ![name] =
             load_api_key(config, PROVIDER_REGISTRY[name])]
  /\ last_call' = <<"get_provider", "instance">>
  /\ UNCHANGED <<reg_pc, environ, config>>
  /\ UNCHANGED notRegistry

\* The environments the server starts in: no key, or the RunPod key.
Environments == {<<>>, [RUNPOD_API_KEY |-> "k1"]}

RegistryNext ==
  \/ \E env \in Environments : RegistryStart(env)
  \/ \E n \in RegistryNames : set_active_provider(n)
  \/ \E n \in RegistryNames : set_active_provider_name(n)
  \/ \E n \in RegistryNames, k \in ApiKeys, a \in BOOLEAN :
       configure_provider(n, k, a)
  \/ \E k \in ConfigKeys : delete_api_key(k)
  \/ \E n \in RegistryNames : get_provider(n)

RegistrySpec == Init /\ [][RegistryNext]_vars

\* ================================================================ claims
Tasks == 1..MaxExec

Started(t) == tasks[t].pc \notin {"new", "invalid"}

\* How many messages of a type a log holds.
CountType(log, type) == Cardinality({i \in 1..Len(log) : log[i].type = type})

\* A log that starts with its only execution_start and holds no message
\* after an execution_complete.
EventStreamOk(log) ==
  \/ log = <<>>
  \/ /\ log[1].type = "execution_start"
     /\ CountType(log, "execution_start") = 1
     /\ \A i \in 1..(Len(log) - 1) : log[i].type # "execution_complete"

\* C1: for every execution the client receives exactly one execution_start,
\* then stream/result/error events, then exactly one execution_complete, and
\* nothing after it.
C1_OneStartOneComplete ==
  \A t \in Tasks :
    Started(t) =>
      /\ EventStreamOk(ws[t])
      /\ tasks[t].pc = "done" =>
           ws[t][Len(ws[t])].type = "execution_complete"

\* The executes whose cell is being run: the command is with the worker and
\* its execution_complete has not been read, or the cell's subprocess runs.
InFlight == {t \in Tasks : tasks[t].pc \in {"polling", "sh_running"}}

\* C2: at every moment at most one cell is in flight in the session.
C2_AtMostOneInFlight == Cardinality(InFlight) <= 1

\* C3: when a cell begins, every variable bound by a cell that completed
\* with status ok since the last reset is defined in the namespace the cell
\* runs against.
C3_NamespacePersists == lastMissing = {}

\* C4: an execute during which interrupt_kernel was handled while its cell
\* (while True: pass) was running eventually receives an execution_error
\* named KeyboardInterrupt and then an execution_complete with status error.
ReceivedInterruptError(t) ==
  \E i, j \in 1..Len(ws[t]) :
    /\ i < j
    /\ ws[t][i].type = "execution_error"
    /\ ws[t][i].ename = "KeyboardInterrupt"
    /\ ws[t][j].type = "execution_complete"
    /\ ws[t][j].status = "error"

C4_InterruptEndsCell ==
  \A t \in Tasks :
    (t \in interrupted /\ tasks[t].source = SrcLoop)
      ~> ReceivedInterruptError(t)

\* C5: an interrupt command the worker receives while no cell is running is
\* answered ok and leaves the worker alive with its namespace unchanged, with
\* or without a cell_index.
IdleInterruptStep ==
  /\ wstate = "idle"
  /\ cmdQ # <<>>
  /\ Head(cmdQ).type = "interrupt"
  /\ cmdQ' = Tail(cmdQ)

C5_IdleInterruptIsNoOp ==
  [][IdleInterruptStep =>
       /\ wstate' = "idle"
       /\ g' = g
       /\ repQ' = Append(repQ, OkReply)]_vars

\* C6: in a run with no reset and no process killed by the system, the
\* worker that begins a cell after an interrupt ended a cell is the process
\* that ran the interrupted cell, and every variable bound before the
\* interrupt is defined in it.
C6_SameWorkerAfterInterrupt ==
  (nDeath = 0 /\ nPReset = 0 /\ ended.pid # 0 /\ later.pid # 0) =>
    /\ later.pid = ended.pid
    /\ later.missing = {}

\* C7: when a cell begins after a reset_kernel, no variable bound before the
\* reset is defined in the namespace it runs against.
C7_ResetClearsNamespace == staleSeen = {}

\* C8: an execute_cell accepted after a reset_kernel has returned eventually
\* receives an execution_complete (for a cell that returns, in a run with no
\* interrupt and no sys.exit() to end the worker otherwise).
AfterReset(t) == tasks[t].h > 0 /\ tasks[t].source = SrcBindY

OtherwiseEnded ==
  \/ nInterrupt > 0
  \/ \E u \in Tasks : tasks[u].source = SrcSysExit

C8_ExecuteAfterResetCompletes ==
  \A t \in Tasks :
    AfterReset(t)
      ~> (CountType(ws[t], "execution_complete") > 0 \/ OtherwiseEnded)

\* C9: when the code of the running cell raises, the worker publishes one
\* execution_error and then execution_complete with status error, answers
\* the command and stays alive.
CellRaises ==
  /\ wstate = "running"
  /\ RunLines(current_code, g).raised \notin {"", "loop"}

C9_RaiseIsReported ==
  [][(CellRaises /\ wstate' # "running") =>
       /\ wstate' = "idle"
       /\ repQ' = Append(repQ, OkReply)
       /\ subQ' = subQ \o
            <<Ev("execution_error", current_cell, 0, "worker", 0,
                 RunLines(current_code, g).raised, ""),
              Ev("execution_complete", current_cell, 0, "worker",
                 exec_count + 1, RunLines(current_code, g).raised, "error")>>
    ]_vars

\* C10: the counts the executor assigns, as the client receives them: 1 for
\* the first request of the session and for the first after a kernel restart,
\* one more than the previous count otherwise, whatever became of the
\* previous request; a reset_kernel changes no cell's source.
CountsInStep ==
  \A i \in 1..Len(wsCounts) :
    wsCounts[i] # KernelRestarted =>
      wsCounts[i] = IF i = 1 \/ wsCounts[i - 1] = KernelRestarted
                    THEN 1
                    ELSE wsCounts[i - 1] + 1

ResetKeepsSources ==
  hgen' # hgen =>
    /\ DOMAIN cells' = DOMAIN cells
    /\ \A i \in DOMAIN cells : cells'[i].source = cells[i].source

C10_CountsAndSources == [][CountsInStep' /\ ResetKeepsSources]_vars

\* A request that errored got count 1, the kernel was reset, and the next
\* request got count 1 again.
C10_Witness ==
  /\ Len(wsCounts) >= 3
  /\ wsCounts[1] = 1
  /\ wsCounts[2] = KernelRestarted
  /\ wsCounts[3] = 1
  /\ tasks[1].pc = "done"
  /\ tasks[1].status = "error"
  /\ tasks[2].ec = 1

\* C11: no two cells of the notebook hold the same non-null execution_count.
C11_UniqueCounts ==
  \A i, j \in DOMAIN cells :
    (i # j /\ cells[i].execution_count # 0) =>
      cells[i].execution_count # cells[j].execution_count

\* C12: a markdown cell holds no outputs and no execution count.
C12_MarkdownHoldsNothing ==
  \A i \in DOMAIN cells :
    cells[i].cell_type = "markdown" =>
      /\ cells[i].outputs = <<>>
      /\ cells[i].execution_count = 0

\* C13: a client's disconnect cancels no execute whose cell is running: no
\* execute_cell call is cancelled once its command is with the worker or its
\* subprocess runs, so the Kernel Client reads the cell's execution_complete
\* and the command's reply.
C13_DisconnectKeepsExecute ==
  \A t \in Tasks :
    tasks[t].pc = "cancelled" =>
      tasks[t].cancelled_at \notin {"polling", "sh_running"}

\* C14: an execute_cell call that waits for the events of its cell while the
\* worker is dead eventually ends: the client receives its
\* execution_complete.
WaitsOnDeadWorker(t) == tasks[t].pc = "polling" /\ wstate = "dead"

C14_DeadWorkerEndsCall ==
  \A t \in Tasks :
    WaitsOnDeadWorker(t) ~> (CountType(ws[t], "execution_complete") > 0)

\* An execute whose log holds the synthesized ConnectionLost error and ends
\* with an execution_complete of status error.
EndsWithConnectionLost(t) ==
  /\ \E i \in 1..Len(ws[t]) : /\ ws[t][i].type = "execution_error"
                              /\ ws[t][i].ename = "ConnectionLost"
  /\ ws[t][Len(ws[t])].type = "execution_complete"
  /\ ws[t][Len(ws[t])].status = "error"

\* C15: an execute that was waiting for its cell's completion when the command
\* and event sockets were closed and re-opened ends with an execution_error
\* named ConnectionLost followed by an execution_complete with status error;
\* stated on the executes that have ended.
C15_ReconnectEndsWithConnectionLost ==
  \A t \in Tasks :
    (t \in reconnected /\ tasks[t].pc = "done") => EndsWithConnectionLost(t)

\* C20: once connect_to_pod has returned status ok (and the pod has not been
\* disconnected since), the executor's command and event addresses are both
\* the tunnelled ones and the executor is marked remote.
C20_ConnectSwitchesEndpoints ==
  lastConnect = "ok" =>
    /\ cmd_addr = "tunnel"
    /\ pub_addr = "tunnel"
    /\ is_remote

\* C16: every command the worker has received has exactly one reply.  With
\* one command at a time on the channel: there is never more than one reply,
\* none without a command waiting for it, and once the worker has taken the
\* command and is not running a cell the reply is there.
C16_OneReplyPerCommand ==
  /\ Len(repQ) <= 1
  /\ reqState = "ready" => repQ = <<>>
  /\ (reqState = "awaiting" /\ cmdQ = <<>> /\ wstate # "running") =>
       Len(repQ) = 1

\* The reply to a command that is refused.
ErrReply == [ok |-> FALSE]

\* C17: the step in which the worker takes a command whose type is missing or
\* unknown sends a reply with ok = false and leaves the worker receiving
\* commands.
C17_UnknownTypeRefused ==
  [][(/\ cmdQ # <<>>
      /\ Head(cmdQ).type \notin KnownTypes
      /\ cmdQ' = Tail(cmdQ))
     => (/\ repQ' = Append(repQ, ErrReply)
         /\ wstate' = "idle")]_vars

\* C19: an execute_cell request whose cell index is missing, negative or not
\* below the number of cells is answered with one error message and nothing
\* else, then or later; the step that refuses it sends no command to the
\* worker, and leaves the execution counts, the cells and the worker as they
\* were.
C19_BadIndexRefused ==
  [][\A t \in Tasks :
       tasks'[t].pc = "invalid" =>
         /\ Len(ws'[t]) = 1
         /\ ws'[t][1].type = "error"
         /\ tasks[t].pc = "new" =>
              /\ cmdQ' = cmdQ
              /\ reqState' = reqState
              /\ execution_count' = execution_count
              /\ exec_count' = exec_count
              /\ cells' = cells
              /\ wstate' = wstate]_vars

\* A refused request that came after a cell had been given a count.
C19_Witness ==
  \E t \in Tasks : tasks[t].pc = "invalid" /\ execution_count > 0

RECURSIVE SentBy(_, _)
\* The events of a log sent by one sender, in the log's order.
SentBy(log, by) ==
  IF log = <<>> THEN <<>>
  ELSE (IF Head(log).by = by THEN <<Head(log)>> ELSE <<>>)
       \o SentBy(Tail(log), by)

\* C18: for an execution that has ended and whose command the worker ran, the
\* events the client received are, type by type and in order, the events the
\* worker published for it.
C18_ClientSeesWorkerSequence ==
  \A t \in Tasks :
    (tasks[t].pc = "done" /\ published[t] # <<>>) =>
      EventTypes(ws[t]) = published[t]

\* The same with the executor's messages alone, leaving out what the
\* websocket handler adds around them.
ExecutorRelaysWorkerSequence ==
  \A t \in Tasks :
    (tasks[t].pc = "done" /\ published[t] # <<>>) =>
      EventTypes(SentBy(ws[t], "executor")) = published[t]

EditHandled(h) ==
  /\ handlers[h].kind \in {"add_cell", "delete_cell", "move_cell"}
  /\ handlers[h].pc \in {"done", "failed"}

\* C22: once an add_cell, delete_cell or move_cell message has been handled,
\* every client that was connected when it arrived and still is has received
\* a notebook_updated of that message carrying the notebook as the mutation
\* left it.
C22_EveryClientGetsUpdate ==
  \A h \in DOMAIN handlers :
    EditHandled(h) =>
      \A c \in (handlers[h].audience \cap LiveClients) \ peerClosed :
        \E i \in DOMAIN inbox[c] :
          inbox[c][i] = [type |-> "notebook_updated", id |-> h,
                         data |-> handlers[h].after]

\* The place of a handler's broadcast of a type in a client's inbox (0: not
\* received).
PlaceOf(c, h, type) ==
  LET at == {i \in DOMAIN inbox[c] : inbox[c][i].id = h /\ inbox[c][i].type = type}
  IN IF at = {} THEN 0 ELSE CHOOSE i \in at : TRUE

\* The notebook-wide broadcasts: which handler's, of which type.
BroadcastKeys ==
  (DOMAIN handlers) \X {"kernel_restarted", "notebook_updated"}

AddIndexes(s) == -2..(Len(s) + 1)

\* C26: on every notebook the edits reach and for every index add_cell takes,
\* add_cell at the index followed by delete_cell at the same index gives back
\* the cell sequence there was.
C26_AddThenDeleteRestores ==
  \A i \in AddIndexes(nbCells) :
    delete_cell(add_cell(nbCells, i, nextCell), i) = nbCells

\* C24: when the cells in memory were loaded from the file the last
\* completed save wrote, of a well-formed notebook and in either format,
\* they are the cells that were saved: the same
\* sequence, with the same types, sources, outputs and execution counts.
\* A well-formed notebook has a cell, and its markdown cells have no outputs
\* and no execution count.
WellFormed(cs) ==
  /\ cs # <<>>
  /\ \A i \in 1..Len(cs) :
       cs[i].cell_type = "markdown" =>
         cs[i].outputs = <<>> /\ cs[i].execution_count = 0

C24_LoadOfSaveIsSame ==
  (roundtrip /\ WellFormed(last_save.cells)) => handler_cells = last_save.cells

\* The same for the .ipynb format alone.
IpynbLoadOfSaveIsSame ==
  (roundtrip /\ last_save.path = "nb.ipynb") => handler_cells = last_save.cells

\* The keys the program knows, of a cell and of a notebook.
CellKeys == {"cell_type", "source", "metadata", "outputs", "execution_count"}
NotebookKeys == {"cells", "metadata", "nbformat", "nbformat_minor"}

\* Document b has every key of document a the program does not know, with
\* a's value, at notebook level and in every cell.
KeepsUnknown(a, b) ==
  /\ \A k \in DOMAIN a \ NotebookKeys : k \in DOMAIN b /\ b[k] = a[k]
  /\ Len(b.cells) = Len(a.cells)
  /\ \A i \in 1..Len(a.cells) :
       \A k \in DOMAIN a.cells[i] \ CellKeys :
         k \in DOMAIN b.cells[i] /\ b.cells[i][k] = a.cells[i][k]

\* C25: when the cells in memory were loaded from an .ipynb document and a
\* completed save has written them to nb.ipynb, the file has every key of
\* that document the program does not know (a cell's id among them), with
\* the value it had.
C25_UnknownFieldsKept ==
  (original.valid /\ last_save.valid /\ last_save.path = "nb.ipynb")
    => KeepsUnknown(original.doc, json_load(disk["nb.ipynb"].text))

\* C27: when a save has stopped before its end, the file is the one there
\* was before the save or holds the whole new text.
C27_SaveIsAtomic ==
  save_pc = "failed" =>
    \/ disk[save_path] = save_prev
    \/ disk[save_path] = [exists |-> TRUE, text |-> save_text]

\* The monitoring loops of a pod id that run: started, not ended and not
\* cancelled.
LoopsOf(pod_id) ==
  {t \in 1..MaxTask : loops[t].pod = pod_id /\ Suspended(t) /\ ~loops[t].cancel}

\* C28: at any time at most one monitoring loop runs for a pod id.
C28_OneLoopPerPod == \A p \in 1..MaxPod : Cardinality(LoopsOf(p)) <= 1

\* The statuses the claim names for the end of the loop.
StopsLoop(status, ssh) ==
  \/ status \in {"ERROR", "TERMINATED"}
  \/ status = "ACTIVE" /\ ssh

\* C29: a loop has ended of its own only after a poll that returned ERROR,
\* TERMINATED, or ACTIVE with an SSH endpoint; a loop that sleeps after a
\* poll that returned a pod got none of those; and after every poll that
\* returned a pod the update of that poll is out.
C29_StopsExactlyThen ==
  \A t \in 1..MaxTask :
    /\ loops[t].pc = "done" =>
         loops[t].ok /\ StopsLoop(loops[t].status, loops[t].ssh)
    /\ (loops[t].pc = "sleep" /\ loops[t].ok) =>
         ~StopsLoop(loops[t].status, loops[t].ssh)
    /\ (loops[t].pc \in {"sleep", "done"} /\ loops[t].ok) => loops[t].sent

\* The events of one command are in order: execution_start first and once,
\* execution_complete last and once.
InOrder(p) ==
  /\ p[1] = "execution_start"
  /\ p[Len(p)] = "execution_complete"
  /\ \A i \in 2..(Len(p) - 1) :
       p[i] \notin {"execution_start", "execution_complete"}

\* C30: when the worker leaves the code of an execute_cell command, only
\* execution_start was published for the command before the code ran; what
\* it has published after the code is in order, with execution_error (when
\* there is one) before execution_complete and execution_complete last; and
\* the reply is sent with it.
C30_StartFirstCompleteLastThenReply ==
  [][WorkerExecFinish =>
       (current_ex \in Tasks =>
          /\ published[current_ex] = <<"execution_start">>
          /\ Len(published'[current_ex]) >= 2
          /\ InOrder(published'[current_ex])
          /\ repQ' = Append(repQ, OkReply))]_vars

\* What the worker has published for a command is always a start of that
\* order: no event before execution_start, none after execution_complete, an
\* execution_error only right before execution_complete.
WorkerOrderKept ==
  \A t \in Tasks :
    LET p == published[t] IN
      /\ \A i \in 1..Len(p) : p[i] = "execution_start" <=> i = 1
      /\ \A i \in 1..Len(p) : p[i] = "execution_complete" => i = Len(p)
      /\ \A i \in 1..Len(p) :
           p[i] = "execution_error" =>
             i < Len(p) /\ p[i + 1] = "execution_complete"

\* C31: when interrupt_kernel was handled while a cell that does not end
\* (while True: pass) was running, the worker running it is eventually torn
\* down and a new worker waits in its command loop, ready for an execute.
InterruptedLoop(t) ==
  /\ t \in interrupted
  /\ tasks[t].source = SrcLoop
  /\ current_ex = t

C31_InterruptEscalates ==
  \A t \in Tasks :
    InterruptedLoop(t) ~> (wstate = "idle" /\ current_ex # t)

\* C32: when a cell run by the worker has ended, the stream events published
\* before its execute_result and execution_complete carry, for stdout and
\* for stderr, all the text written to the stream, the text after the last
\* newline included.
RECURSIVE StreamText(_, _)
StreamText(q, name) ==
  IF q = <<>> \/ Head(q).type \in {"execute_result", "execution_complete"}
  THEN <<>>
  ELSE (IF Head(q).type = "stream" /\ Head(q).name = name
        THEN Head(q).text ELSE <<>>) \o StreamText(Tail(q), name)

C32_FinalFlushBeforeResult ==
  (py_pc = "done" /\ impl = "worker") =>
    \A name \in {"stdout", "stderr"} : StreamText(sf_pub, name) = written[name]

\* Text that ended with a newline, or was flushed by the cell, is all
\* published before the cell's last events.
WrittenLinesPublished ==
  (py_pc = "done" /\ impl = "worker") =>
    \A name \in {"stdout", "stderr"} :
      StreamText(sf_pub, name)
        \o Join(IF name = "stdout" THEN out_buf ELSE err_buf) = written[name]

\* C33 (as claimed): a shell cell whose command returned a non-zero code has
\* ended with an execution_error named ShellCommandError that names the
\* command and an execution_complete with status error, whatever the command
\* wrote to stderr.
ShellFailed == sh_pc = "done" /\ sh_cmd.returncode # 0

NamesCommand(error) ==
  error.ename = "ShellCommandError" /\ error.traceback = sh_cmd.command

EndsWithError ==
  /\ sh_events[Len(sh_events)].type = "execution_complete"
  /\ sh_events[Len(sh_events)].status = "error"

C33_NonZeroExitIsShellCommandError ==
  ShellFailed =>
    /\ \E i \in 1..Len(sh_events) :
         sh_events[i].type = "execution_error" /\ NamesCommand(sh_events[i].error)
    /\ EndsWithError

\* C33 (amended): a shell cell whose command returned a non-zero code ends
\* with an execution_complete with status error in every case.  When the
\* command wrote nothing but white space to stderr, the error of that
\* execution_complete is a ShellCommandError naming the command, and the
\* worker publishes it as an execution_error too; when it wrote to stderr,
\* the text is streamed and no ShellCommandError is reported.
C33_ShellCommandErrorUnlessStderr ==
  ShellFailed =>
    /\ EndsWithError
    /\ Blank(sh_cmd.stderr) =>
         /\ NamesCommand(sh_events[Len(sh_events)].error)
         /\ sh_path = "worker" =>
              \E i \in 1..Len(sh_events) :
                /\ sh_events[i].type = "execution_error"
                /\ NamesCommand(sh_events[i].error)
    /\ ~Blank(sh_cmd.stderr) =>
         /\ \A i \in 1..Len(sh_events) : sh_events[i].error = NoError
         /\ \E i \in 1..Len(sh_events) :
              /\ sh_events[i].name = "stderr"
              /\ sh_events[i].text = sh_cmd.stderr

C33_Witness ==
  /\ ShellFailed
  /\ ~Blank(sh_cmd.stderr)
  /\ sh_path = "worker"

\* C34: when a cell whose last line is a function call has ended, the
\* function has run once for it: the last line was not evaluated a second
\* time, whichever of the three Python branches ran the cell.
IsCall(line) ==
  /\ Len(line.text) = 3
  /\ line.text[2] = "("
  /\ line.text[3] = ")"
  /\ line.calls = 1

C34_CallRunsOnce ==
  (py_pc = "done" /\ IsCall(last)) => calls = 1

\* The worker's branch does not evaluate a last line that holds a call.
WorkerCallRunsOnce ==
  (py_pc = "done" /\ impl = "worker" /\ Has(last.text, {"("})) =>
    calls = last.calls

\* C35: at any time at most one ssh tunnel process the manager started is
\* alive, and a process that is alive is the one ssh_tunnel_proc records.
C35_OneTunnelRecorded ==
  /\ Cardinality(tunnels) <= 1
  /\ tunnels \subseteq {ssh_tunnel_proc}

\* C36: when an execution has finished and the cell whose source it ran is
\* still in the notebook, the execution's count (with its outputs) is stored
\* on that cell, whatever add_cell, delete_cell or move_cell messages were
\* handled while it ran.
InNotebook(cell) == \E i \in 1..Len(nbCells) : nbCells[i] = cell

C36_ResultStoredOnItsCell ==
  (srun.pc \in {"done", "failed"} /\ InNotebook(srun.cell)) =>
    stored[srun.cell] = srun.count

\* With no structural message handled while the cell ran, the result is
\* stored on the cell that was run.
StoredWhereRunWhenUntouched ==
  [][(/\ StoreExecEnd
      /\ srun.cell_index < Len(nbCells)
      /\ nbCells[srun.cell_index + 1] = srun.cell) =>
        stored'[srun.cell] = srun.count]_vars

\* C37: the execution_complete that ends the poll loop of an execute_cell
\* is the one the worker published for that invocation: it carries the
\* execution count the invocation sent with its command (counts are not
\* reused in a run without reset_kernel), never the count of an earlier
\* execution of the same cell.
EndsPollLoop(t) == tasks[t].pc = "polling" /\ tasks'[t].pc = "x_done"

C37_CompleteOfThisInvocation ==
  [][\A t \in Tasks : EndsPollLoop(t) => tasks'[t].rcount = tasks[t].ec]_vars

\* With the sockets never re-opened, an execute_cell is ended by its own
\* execution_complete only.
OwnCompleteUnlessReopened ==
  [][\A t \in Tasks :
       (EndsPollLoop(t) /\ nPodDisconnect = 0) =>
         tasks'[t].rcount = tasks[t].ec]_vars

\* C38: a call of execute_cell whose cell's execution_complete the worker
\* has put on the output queue has returned, or the event is still on the
\* queue for its timed get to find: no turn of the pump loop, and no drain
\* of _send_pending, takes it away from the call.
CompletesPut ==
  nPExec - Len(command_queue) - (IF pw.state = "running" THEN 1 ELSE 0)

OnQueue(t) ==
  \E i \in 1..Len(output_queue) :
    /\ output_queue[i].type = "execution_complete"
    /\ output_queue[i].cell_index = ptasks[t].cell

C38_ReturnsOnceCompleteIsPut ==
  \A t \in 1..MaxProcExec :
    t <= CompletesPut => (ptasks[t].pc = "returned" \/ OnQueue(t))

\* C39: monitoring_tasks holds an entry for a pod id exactly while a
\* monitoring loop of that pod id runs (started, not ended, not cancelled).
C39_EntryIffLoopRuns ==
  \A p \in 1..MaxPod : (monitoring_tasks[p] # 0) <=> (LoopsOf(p) # {})

\* The entry of a pod id, when there is one, is a loop of that pod id that
\* was started and has not ended of its own.
EntryIsALoopOfThePod ==
  \A p \in 1..MaxPod :
    monitoring_tasks[p] # 0 =>
      /\ loops[monitoring_tasks[p]].pod = p
      /\ Suspended(monitoring_tasks[p])

\* The active provider of the config, when there is one, is registered and
\* load_api_key gives a key for it.
ActiveIsConfigured ==
  config["active_provider"] # NoKey =>
    /\ config["active_provider"] \in DOMAIN PROVIDER_REGISTRY
    /\ Truthy(load_api_key(config,
                           PROVIDER_REGISTRY[config["active_provider"]]))

\* C40: after any sequence of configure_provider, set_active_provider and
\* delete_api_key calls, the active provider recorded in the config, if
\* there is one, is a registered provider that has an API key configured.
C40_ActiveProviderIsConfigured == reg_pc = "up" => ActiveIsConfigured

\* The factory's own calls keep the active provider configured: a call of
\* configure_provider, set_active_provider or get_provider from a state
\* where the active provider is configured leaves it configured.
FactoryCallsKeepActiveConfigured ==
  [][(ActiveIsConfigured
        /\ last_call'[1] \in {"configure_provider", "set_active_provider",
                              "get_provider"})
       => ActiveIsConfigured']_vars
====
